---- MODULE Spec2Model ----
(***************************************************************************)
(* Model of the pinit apply engine (crates/pinit-core/src/lib.rs) and of   *)
(* the part of the merge registry it dispatches to (merge.rs).             *)
(*                                                                         *)
(* A template tree and a destination tree are maps from relative paths to  *)
(* nodes.  One call of apply_template_dir is a sequence of steps: the      *)
(* entry step (precondition checks, GitIgnore::detect, first read_dir),    *)
(* then one step per iteration of the loop of apply_dir_recursive.         *)
(***************************************************************************)
EXTENDS Integers, Sequences, FiniteSets, TLC

\* ---------------------------------------------------------------- bounds
\* number of calls (apply_template_dir / apply_generated_file) in a behaviour
MaxRuns == 2
\* number of entries (files, directories, symlinks) of the template tree
MaxEntries == 2
\* number of entries of the initial destination tree
MaxDestEntries == 2

\* ------------------------------------------------------------ file bytes
\* A byte buffer is either valid UTF-8 text, given by its lines
\* (str::lines) and whether it ends with a newline, or not valid UTF-8.
Text(ls, endnl) == [utf8 |-> TRUE, lines |-> ls, nl |-> endnl]

Binary == [utf8 |-> FALSE, lines |-> <<>>, nl |-> FALSE]

\* ""
C0 == Text(<<>>, FALSE)

\* "a.txt" (no trailing newline)
CA == Text(<<"a.txt">>, FALSE)

\* "sub/\n"
CS == Text(<<"sub/">>, TRUE)

Range(s) == {s[i] : i \in DOMAIN s}

\* Option<Vec<u8>>
None == [some |-> FALSE, val |-> C0]

Some(v) == [some |-> TRUE, val |-> v]

\* ----------------------------------------------------------------- paths
\* A relative path is the sequence of its components.
U ==
  { <<".DS_Store">>, <<".git">>, <<".git", "config">>, <<".gitignore">>,
    <<"a.txt">>, <<"sub">>, <<"sub", "b.txt">> }

\* byte order of the file names (OsString comparison)
NameOrder == <<".DS_Store", ".git", ".gitignore", "a.txt", "b.txt", "config", "sub">>

Rank(n) == CHOOSE i \in DOMAIN NameOrder : NameOrder[i] = n

Parent(p) == SubSeq(p, 1, Len(p) - 1)

FileName(p) == p[Len(p)]

\* --------------------------------------------------------------- nodes
Absent == [kind |-> "absent", data |-> C0]

Dir == [kind |-> "dir", data |-> C0]

Symlink == [kind |-> "symlink", data |-> C0]

File(c) == [kind |-> "file", data |-> c]

\* neither file, directory nor symlink (a FIFO, a socket)
Special == [kind |-> "special", data |-> C0]

\* a tree is well formed when every entry lies in a directory
WellFormed(t) == \A p \in U : (t[p].kind # "absent" /\ Len(p) > 1) => t[Parent(p)].kind = "dir"

Entries(t) == {p \in U : t[p].kind # "absent"}

EmptyTree == [p \in U |-> Absent]

\* the shapes a template entry can take
TemplateOptions(p) ==
  CASE p = <<".DS_Store">> -> {Absent, File(C0), Symlink}
    [] p = <<".git">> -> {Absent, Dir}
    [] p = <<".git", "config">> -> {Absent, File(C0), Symlink}
    [] p = <<".gitignore">> -> {Absent, File(CA), File(CS)}
    [] p = <<"a.txt">> -> {Absent, Symlink, Special, File(C0), File(CA), File(CS)}
    [] p = <<"sub">> -> {Absent, Dir}
    [] OTHER -> {Absent, Symlink, File(CA), File(CS)}

\* the shapes an entry of the initial destination can take
DestOptions(p) ==
  CASE p = <<".gitignore">> -> {Absent, File(CA)}
    [] p = <<"a.txt">> -> {Absent, Dir, File(CA), File(Binary)}
    [] p = <<"sub">> -> {Absent, Dir, File(C0)}
    [] p = <<"sub", "b.txt">> -> {Absent, File(CA)}
    [] OTHER -> {Absent}

TreeOf(ds, g, gc, gi, a, s, sb) ==
  [p \in U |->
     CASE p = <<".DS_Store">> -> ds
       [] p = <<".git">> -> g
       [] p = <<".git", "config">> -> gc
       [] p = <<".gitignore">> -> gi
       [] p = <<"a.txt">> -> a
       [] p = <<"sub">> -> s
       [] OTHER -> sb]

TreesOver(Opt(_), max) ==
  {t \in {TreeOf(ds, g, gc, gi, a, s, sb) :
             ds \in Opt(<<".DS_Store">>), g \in Opt(<<".git">>),
             gc \in Opt(<<".git", "config">>), gi \in Opt(<<".gitignore">>),
             a \in Opt(<<"a.txt">>), s \in Opt(<<"sub">>),
             sb \in Opt(<<"sub", "b.txt">>)} :
      WellFormed(t) /\ Cardinality(Entries(t)) <= max}

TemplateTrees == TreesOver(TemplateOptions, MaxEntries)

DestTrees == TreesOver(DestOptions, MaxDestEntries)

\* ------------------------------------------------------- ignore policy
should_always_ignore_GitOnly(rel) == rel[1] = ".git"

\* lines 543-548
should_always_ignore(rel) ==
  \/ FileName(rel) = ".DS_Store"
  \/ rel[1] = ".git"

RECURSIVE JoinSlash(_)
JoinSlash(rel) ==
  IF Len(rel) = 1 THEN rel[1] ELSE rel[1] \o "/" \o JoinSlash(Tail(rel))

format_git_rel(rel, is_dir) ==
  IF is_dir THEN JoinSlash(rel) \o "/" ELSE JoinSlash(rel)

\* The patterns `git check-ignore` works with in the destination: those of
\* the enclosing work tree (base) and the lines of the destination's own
\* .gitignore file.
GitRules(base, dest) ==
  LET gi == dest[<<".gitignore">>]
  IN  base \cup (IF gi.kind = "file" /\ gi.data.utf8 THEN Range(gi.data.lines) ELSE {})

\* A pattern without a slash matches a file or directory of that name at any
\* depth, a pattern with a trailing slash matches directories only; a path
\* beneath a matching directory is ignored too.
GitMatches(rules, rel, is_dir) ==
  \E i \in 1..Len(rel) :
     \/ rel[i] \in rules
     \/ (i < Len(rel) \/ is_dir) /\ (rel[i] \o "/") \in rules

\* GitIgnore::ignored_set: the queries git reports as ignored
ignored_set(rules, queries) ==
  {format_git_rel(q.rel, q.is_dir) : q \in {r \in queries : GitMatches(rules, r.rel, r.is_dir)}}

\* ------------------------------------------------------ merge registry
\* merge_lines appending every template line
merge_lines_AppendsAll(dest_bytes, src_bytes) ==
  IF ~dest_bytes.utf8 \/ ~src_bytes.utf8 THEN None
  ELSE Some(Text(dest_bytes.lines \o src_bytes.lines, TRUE))

\* merge.rs 46-75
merge_lines(dest_bytes, src_bytes) ==
  IF ~dest_bytes.utf8 \/ ~src_bytes.utf8 THEN None
  ELSE LET have == Range(dest_bytes.lines)
           appended == SelectSeq(src_bytes.lines, LAMBDA l : l \notin have)
       IN  IF Len(appended) = 0 THEN Some(dest_bytes)
           ELSE Some(Text(dest_bytes.lines \o appended, TRUE))

\* every file name of U has no registered extension: the fallback arm
merge_file(rel, dest_bytes, src_bytes) == merge_lines(dest_bytes, src_bytes)

\* ------------------------------------------------------- .env files
\* number of lines of a text handed to a line-based merge strategy
MaxLines == 2

\* A line of a .env file is the sequence of its characters.
Alphabetic == {"A", "B", "d", "e", "o", "p", "r", "t", "x"}

Digits == {"1"}

Export == <<"e", "x", "p", "o", "r", "t", " ">>

\* the white space of the inputs: blank and line feed
White == {" ", "\n"}

RECURSIVE trim_start(_)
trim_start(s) == IF s # <<>> /\ Head(s) \in White THEN trim_start(Tail(s)) ELSE s

RECURSIVE trim_end(_)
trim_end(s) ==
  IF s # <<>> /\ s[Len(s)] \in White THEN trim_end(SubSeq(s, 1, Len(s) - 1)) ELSE s

trim(s) == trim_end(trim_start(s))

starts_with(s, prefix) == Len(s) >= Len(prefix) /\ SubSeq(s, 1, Len(prefix)) = prefix

\* merge.rs 136-145
is_env_ident(s) ==
  /\ s # <<>>
  /\ s[1] = "_" \/ s[1] \in Alphabetic
  /\ \A i \in 2..Len(s) : s[i] = "_" \/ s[i] \in Alphabetic \cup Digits

\* merge.rs 116-134: the key of a line, None for a comment, a blank line, a
\* line without `=` and a line whose key is no identifier
env_key(line) ==
  LET trimmed == trim(line)
      s == IF starts_with(trimmed, Export)
           THEN trim_start(SubSeq(trimmed, Len(Export) + 1, Len(trimmed)))
           ELSE trimmed
      eqs == {i \in DOMAIN s : s[i] = "="}
      first == CHOOSE i \in eqs : \A j \in eqs : i <= j
      key == trim(SubSeq(s, 1, first - 1))
  IN  IF trimmed = <<>> \/ Head(trimmed) = "#" THEN [some |-> FALSE]
      ELSE IF eqs = {} THEN [some |-> FALSE]
      ELSE IF key = <<>> \/ ~is_env_ident(key) THEN [some |-> FALSE]
      ELSE [some |-> TRUE, key |-> key]

\* merge.rs 77-114
merge_env(dest_bytes, src_bytes) ==
  IF ~dest_bytes.utf8 \/ ~src_bytes.utf8 THEN None
  ELSE IF \E i \in DOMAIN dest_bytes.lines : ~env_key(dest_bytes.lines[i]).some THEN None
  ELSE LET have == {env_key(dest_bytes.lines[i]).key : i \in DOMAIN dest_bytes.lines}
           missing == SelectSeq(src_bytes.lines,
                                LAMBDA l : env_key(l).some /\ env_key(l).key \notin have)
       IN  IF missing = <<>> THEN Some(dest_bytes)
           ELSE \* the destination, newline-terminated, an empty line, the missing lines
                Some(Text(dest_bytes.lines \o <<<<>>>> \o missing, TRUE))

\* -------------------------------------------- structured documents
\* number of key paths of a TOML or YAML document
MaxDocEntries == 3

Keys == {"a", "b"}

\* bytes that are no UTF-8 or do not parse as a document
Unparsable == [parses |-> FALSE]

Parsed(root) == [parses |-> TRUE, root |-> root]

\* toml_edit::Item: a value, a table or an array of tables
TomlValue(v) == [t |-> "value", v |-> v]

TomlTable(m) == [t |-> "table", m |-> m]

ArrayOfTables == [t |-> "array_of_tables"]

\* rust_yaml::Value: a scalar, a sequence or a mapping
Scalar(v) == [t |-> "scalar", v |-> v]

Sequence == [t |-> "sequence"]

Mapping(m) == [t |-> "mapping", m |-> m]

\* the maps from some of the keys to values of V
MapsTo(V) == UNION {[D -> V] : D \in SUBSET Keys}

RECURSIVE Size(_, _)
\* number of key paths of a map whose nested maps have kind `nested`
Size(m, nested) ==
  IF DOMAIN m = {} THEN 0
  ELSE LET k == CHOOSE x \in DOMAIN m : TRUE
           rest == [x \in DOMAIN m \ {k} |-> m[x]]
       IN  1 + (IF m[k].t = nested THEN Size(m[k].m, nested) ELSE 0) + Size(rest, nested)

TomlLeaves == {TomlValue(1), TomlValue(2), ArrayOfTables}

\* root tables two levels deep
TomlDocs ==
  LET inner == {TomlTable(m) : m \in MapsTo(TomlLeaves)}
  IN  {m \in MapsTo(TomlLeaves \cup inner) : Size(m, "table") <= MaxDocEntries}

YamlLeaves == {Scalar(1), Scalar(2), Sequence}

\* a YAML document is any value: a leaf or a mapping two levels deep
YamlDocs ==
  LET inner == {Mapping(m) : m \in MapsTo(YamlLeaves)}
  IN  YamlLeaves \cup
      {Mapping(m) : m \in {x \in MapsTo(YamlLeaves \cup inner) :
                              Size(x, "mapping") <= MaxDocEntries}}

RECURSIVE merge_toml_table(_, _)
\* merge.rs 218-237
merge_toml_table(dest, src) ==
  [key \in DOMAIN dest \cup DOMAIN src |->
     IF key \notin DOMAIN dest THEN src[key]
     ELSE IF key \in DOMAIN src /\ dest[key].t = "table" /\ src[key].t = "table"
     THEN TomlTable(merge_toml_table(dest[key].m, src[key].m))
     ELSE dest[key]]

\* merge_toml merging the destination into the template
merge_toml_TemplateWins(dest_bytes, src_bytes) ==
  IF ~dest_bytes.parses \/ ~src_bytes.parses THEN None
  ELSE Some(Parsed(merge_toml_table(src_bytes.root, dest_bytes.root)))

\* merge.rs 207-216
merge_toml(dest_bytes, src_bytes) ==
  IF ~dest_bytes.parses \/ ~src_bytes.parses THEN None
  ELSE Some(Parsed(merge_toml_table(dest_bytes.root, src_bytes.root)))

RECURSIVE merge_yaml_value(_, _)
\* merge.rs 255-270
merge_yaml_value(dest, src) ==
  IF dest.t = "mapping" /\ src.t = "mapping"
  THEN Mapping([k \in DOMAIN dest.m \cup DOMAIN src.m |->
                  IF k \notin DOMAIN dest.m THEN src.m[k]
                  ELSE IF k \in DOMAIN src.m THEN merge_yaml_value(dest.m[k], src.m[k])
                  ELSE dest.m[k]])
  ELSE dest

\* YAML bytes that load as the value `root`. A rust_yaml::Value holds the
\* data only: the bytes BasicEmitter::emit writes are a function of the
\* value, while many texts load as one value (comments, quoting, flow or
\* block layout). `emitted` tells the emitter's own text from the others.
Yaml(root, emitted) == [parses |-> TRUE, root |-> root, emitted |-> emitted]

\* Yaml::load_str
load_str(bytes) == bytes.root

\* BasicEmitter::emit
emit(value) == Yaml(value, TRUE)

\* merge.rs 239-253
merge_yaml(dest_bytes, src_bytes) ==
  IF ~dest_bytes.parses \/ ~src_bytes.parses THEN None
  ELSE Some(emit(merge_yaml_value(load_str(dest_bytes), load_str(src_bytes))))

\* ---------------------------------------------- syntax-tree merge
\* number of top-level nodes of a source file
MaxItems == 2

\* A top-level node of a parsed file: its kind, its text (a sequence of
\* words and blanks) and the name ts_item_name finds in it, if any.
Node(kind, text, name) == [kind |-> kind, text |-> text, name |-> name]

NoName == [some |-> FALSE]

Name(n) == [some |-> TRUE, val |-> n]

\* the needles of the rules and of the engine that occur in a node kind
Needles(kind) ==
  CASE kind = "use_declaration" -> {"use"}
    [] kind = "function_item" -> {"function"}
    [] kind = "struct_item" -> {"struct"}
    [] kind = "line_comment" -> {"comment"}
    [] kind = "namespace_definition" -> {"namespace"}
    [] kind = "namespace_use_declaration" -> {"namespace", "use"}
    [] kind = "rule_set" -> {"rule"}
    [] kind = "at_rule" -> {"rule", "at_rule"}
    [] kind = "import_statement" -> {"import"}
    [] OTHER -> {}

\* merge.rs 638-642, for haystack a node kind
contains_any(kind, needles) == Needles(kind) \cap needles # {}

\* merge.rs 272-286 and 288-300
RustRules ==
  [import_like |-> {"use"},
   named_like |-> {"function", "struct", "enum", "trait", "type", "const", "static", "mod"},
   skip_if_dest_has_namespace |-> FALSE]

PhpRules ==
  [import_like |-> {"use", "namespace"},
   named_like |-> {"function", "class", "interface", "trait", "enum"},
   skip_if_dest_has_namespace |-> TRUE]

RECURSIVE join(_)
\* words joined by single blanks
join(words) ==
  IF Len(words) <= 1 THEN words ELSE <<Head(words), " ">> \o join(Tail(words))

\* merge.rs 779-781
normalize_ws(text) == join(SelectSeq(text, LAMBDA w : w # " "))

\* merge.rs 589-613: the item of one node
TsTopLevelItem(node, rules) ==
  LET is_namespace == contains_any(node.kind, {"namespace"}) /\ ~contains_any(node.kind, {"use"})
      is_import == contains_any(node.kind, rules.import_like)
      is_named == ~is_import /\ contains_any(node.kind, rules.named_like)
  IN  [node |-> node,
       name |-> IF is_named THEN node.name ELSE NoName,
       is_namespace |-> is_namespace,
       is_import |-> is_import,
       is_named |-> is_named]

RECURSIVE ts_top_level_items(_, _, _)
\* merge.rs 578-617
ts_top_level_items(nodes, rules, dest_has_namespace) ==
  IF nodes = <<>> THEN <<>>
  ELSE LET item == TsTopLevelItem(Head(nodes), rules)
           rest == ts_top_level_items(Tail(nodes), rules, dest_has_namespace)
       IN  IF rules.skip_if_dest_has_namespace /\ dest_has_namespace /\ item.is_namespace
           THEN rest
           ELSE <<item>> \o rest

RECURSIVE ts_import_insertion(_)
\* merge.rs 619-636: the number of items of the leading preamble (the
\* insertion byte is the end of the last of them)
ts_import_insertion(items) ==
  IF items = <<>> THEN 0
  ELSE LET item == Head(items)
           is_comment_like == contains_any(item.node.kind, {"comment"})
           is_shebang_like == contains_any(item.node.kind, {"shebang", "hash_bang"})
       IN  IF item.is_namespace \/ item.is_import \/ is_comment_like \/ is_shebang_like
           THEN 1 + ts_import_insertion(Tail(items))
           ELSE 0

\* TsKey with the text of an import as it stands
TsKey_RawText(item) ==
  IF item.is_import THEN {[text |-> item.node.text]}
  ELSE IF item.is_named /\ item.name.some
  THEN {[kind |-> item.node.kind, name |-> item.name.val]}
  ELSE {}

\* merge.rs 440-443 and 476-487: the TsKey of an item, if it has one
TsKey(item) ==
  IF item.is_import THEN {[text |-> normalize_ws(item.node.text)]}
  ELSE IF item.is_named /\ item.name.some
  THEN {[kind |-> item.node.kind, name |-> item.name.val]}
  ELSE {}

RECURSIVE ts_missing(_, _)
\* merge.rs 493-519: the template items queued, the keys growing as they are
ts_missing(items, dest_keys) ==
  IF items = <<>> THEN <<>>
  ELSE LET item == Head(items)
       IN  IF TsKey(item) = {} \/ TsKey(item) \subseteq dest_keys
           THEN ts_missing(Tail(items), dest_keys)
           ELSE <<item>> \o ts_missing(Tail(items), dest_keys \cup TsKey(item))

\* merge.rs 445-564, on parsed files: the top-level nodes of the result
merge_tree_sitter_named_top_level(dest_bytes, src_bytes, rules) ==
  IF ~dest_bytes.parses \/ ~src_bytes.parses THEN None
  ELSE LET dest_items == ts_top_level_items(dest_bytes.root, rules, FALSE)
           dest_has_namespace == \E i \in DOMAIN dest_items : dest_items[i].is_namespace
           at == ts_import_insertion(dest_items)
           dest_keys == UNION {TsKey(dest_items[i]) : i \in DOMAIN dest_items}
           src_items == ts_top_level_items(src_bytes.root, rules, dest_has_namespace)
           missing == ts_missing(src_items, dest_keys)
           missing_imports == SelectSeq(missing, LAMBDA i : i.is_import)
           missing_named == SelectSeq(missing, LAMBDA i : ~i.is_import)
           nodes(items) == [i \in DOMAIN items |-> items[i].node]
           out == dest_bytes.root
       IN  IF missing = <<>> THEN Some(dest_bytes)
           ELSE Some(Parsed(SubSeq(out, 1, at) \o nodes(missing_imports)
                              \o SubSeq(out, at + 1, Len(out)) \o nodes(missing_named)))

\* ------------------------------------------------------ .envrc files
\* "export" without the blank
ExportWord == <<"e", "x", "p", "o", "r", "t">>

\* merge.rs 191-205: the variable a line assigns, None for a comment, a
\* blank line, a line without `=` and a line whose variable is no identifier
envrc_var(line) ==
  LET t == trim_start(line)
      s == IF starts_with(t, ExportWord)
           THEN trim_start(SubSeq(t, Len(ExportWord) + 1, Len(t)))
           ELSE t
      eqs == {i \in DOMAIN s : s[i] = "="}
      first == CHOOSE i \in eqs : \A j \in eqs : i <= j
      var == trim(SubSeq(s, 1, first - 1))
  IN  IF t = <<>> \/ Head(t) = "#" THEN [some |-> FALSE]
      ELSE IF eqs = {} THEN [some |-> FALSE]
      ELSE IF ~is_env_ident(var) THEN [some |-> FALSE]
      ELSE [some |-> TRUE, key |-> var]

\* merge.rs 147-189
merge_envrc(dest_bytes, src_bytes) ==
  IF ~dest_bytes.utf8 \/ ~src_bytes.utf8 THEN None
  ELSE LET have_lines == Range(dest_bytes.lines)
           have_vars == {envrc_var(l).key : l \in {x \in have_lines : envrc_var(x).some}}
           to_add == SelectSeq(src_bytes.lines,
                               LAMBDA l : /\ l \notin have_lines
                                          /\ ~(envrc_var(l).some /\ envrc_var(l).key \in have_vars))
       IN  IF to_add = <<>> THEN Some(dest_bytes)
           ELSE Some(Text(dest_bytes.lines \o <<<<>>>> \o to_add, TRUE))

\* --------------------------------------------- text top-level merge
\* merge.rs 414-422: merge_css
CssKinds == {"rule", "at_rule"}

\* merge.rs 745-760: the keys of the top-level nodes of the kinds
ts_text_keys(nodes, substrings) ==
  {normalize_ws(nodes[i].text) : i \in {j \in DOMAIN nodes : contains_any(nodes[j].kind, substrings)}}

\* merge.rs 762-777: the nodes of the kinds, in order
ts_text_items(nodes, substrings) ==
  SelectSeq(nodes, LAMBDA n : contains_any(n.kind, substrings))

\* merge.rs 694-743, on parsed files: the top-level nodes of the result
merge_tree_sitter_text_top_level(dest_bytes, src_bytes, kind_substrings) ==
  IF ~dest_bytes.parses \/ ~src_bytes.parses THEN None
  ELSE LET dest_keys == ts_text_keys(dest_bytes.root, kind_substrings)
           src_items == ts_text_items(src_bytes.root, kind_substrings)
           out_items == SelectSeq(src_items, LAMBDA n : normalize_ws(n.text) \notin dest_keys)
       IN  IF out_items = <<>> THEN Some(dest_bytes)
           ELSE Some(Parsed(dest_bytes.root \o out_items))

\* ---------------------------------------------------------- Markdown
\* A Markdown file is the sequence of its headings that have a title, each
\* with its level, its title and the text up to the next heading.
Heading(level, title, body) == [level |-> level, title |-> title, body |-> body]

\* merge.rs 897-927: the key of a heading is its title, whatever its level
markdown_heading_key(h) == normalize_ws(h.title)

\* merge.rs 836-851
markdown_heading_set(headings) == {markdown_heading_key(headings[i]) : i \in DOMAIN headings}

\* merge.rs 853-895: one section per heading; its text runs to the start of
\* the next heading, and the headings counted inside it are those that start
\* before that point
markdown_sections(headings) ==
  [idx \in DOMAIN headings |->
     LET next_start == idx + 1
         inner == {j \in (idx + 1)..Len(headings) :
                      j < next_start /\ headings[j].level >= headings[idx].level}
     IN  [heading_key |-> markdown_heading_key(headings[idx]),
          heading_keys_in_section |->
             {markdown_heading_key(headings[idx])}
                \cup {markdown_heading_key(headings[j]) : j \in inner},
          text |-> SubSeq(headings, idx, next_start - 1)]]

RECURSIVE md_additions(_, _)
\* merge.rs 796-805
md_additions(sections, dest_headings) ==
  IF sections = <<>> THEN <<>>
  ELSE LET section == Head(sections)
       IN  IF section.heading_key \in dest_headings
           THEN md_additions(Tail(sections), dest_headings)
           ELSE section.text
                   \o md_additions(Tail(sections),
                                   dest_headings \cup section.heading_keys_in_section)

\* merge.rs 783-827, on parsed files: the headings of the result
merge_markdown_sections(dest_bytes, src_bytes) ==
  IF ~dest_bytes.parses \/ ~src_bytes.parses THEN None
  ELSE LET dest_headings == markdown_heading_set(dest_bytes.root)
           additions == md_additions(markdown_sections(src_bytes.root), dest_headings)
       IN  IF additions = <<>> THEN Some(dest_bytes)
           ELSE Some(Parsed(dest_bytes.root \o additions))

\* -------------------------------------------------------------- HTML
\* An HTML file is the sequence of its elements: the tag name and the value
\* of the src or href attribute, if it has one.
Element(tag, value) == [tag |-> tag, value |-> value]

\* merge.rs 997-1022: script elements with src and link elements with href
html_asset_from_element(e) ==
  IF e.tag \in {"script", "link"} /\ e.value.some
  THEN {[key |-> [tag |-> e.tag, value |-> normalize_ws(e.value.val)], text |-> e]}
  ELSE {}

RECURSIVE html_assets(_)
\* merge.rs 980-995: the stack hands out the last child first
html_assets(elements) ==
  IF elements = <<>> THEN <<>>
  ELSE LET last == elements[Len(elements)]
           asset == html_asset_from_element(last)
           rest == html_assets(SubSeq(elements, 1, Len(elements) - 1))
       IN  IF asset = {} THEN rest ELSE <<CHOOSE a \in asset : TRUE>> \o rest

\* merge.rs 972-978
html_asset_keys(elements) ==
  {html_assets(elements)[i].key : i \in DOMAIN html_assets(elements)}

\* merge.rs 929-964, on parsed files: the elements of the result
merge_html_assets(dest_bytes, src_bytes) ==
  IF ~dest_bytes.parses \/ ~src_bytes.parses THEN None
  ELSE LET dest_assets == html_asset_keys(dest_bytes.root)
           src_assets == html_assets(src_bytes.root)
           additions == SelectSeq(src_assets, LAMBDA a : a.key \notin dest_assets)
       IN  IF additions = <<>> THEN Some(dest_bytes)
           ELSE Some(Parsed(dest_bytes.root
                              \o [i \in DOMAIN additions |-> additions[i].text]))

\* ------------------------------------------------------ permission bits
\* rw-r--r--, r--r--r-- (not writable by the process, which is not
\* privileged) and rwsr-xr-x (set-user-ID)
Modes == {"0644", "0444", "4755"}

\* the mode of a new file under the umask of the process, which is what
\* fs::write gives a file it creates
DefaultMode == "0644"

\* fs::write onto an existing file keeps its mode, except that the kernel
\* clears the set-user-ID bit of a file that is written to
fs_write_mode(mode) == IF mode = "4755" THEN "0755" ELSE mode

Writable(mode) == mode # "0444"

\* set_permissions leaving the file with the mode the write gave it
set_permissions_Dropped(current, perms) == current

\* fs::set_permissions(&dest_path, existing_perms)
set_permissions(current, perms) == perms

\* lines 505-519 and 320-339: the mode of an existing file after
\* fs::metadata, fs::write and fs::set_permissions
updated_mode(mode) == set_permissions(fs_write_mode(mode), mode)

\* ------------------------------------------------------------- state
VARIABLES
  tmplRoot,    \* what the template path is: "dir", "missing", "file", "symlink"
  tmpl,        \* the template tree
  tmplPerm,    \* the permission bits of the template files
  destRoot,    \* what the destination path is
  fs,          \* the destination tree
  perm,        \* the permission bits of the destination files
  inWorkTree,  \* the destination path lies inside a git work tree
  baseRules,   \* ignore patterns of that work tree outside the destination
  pc,          \* "idle" between calls, "walk" inside apply_dir_recursive
  dryRun,      \* options.dry_run of the call in progress
  gitIgnore,   \* GitIgnore::detect returned Some
  stack,       \* frames of apply_dir_recursive, innermost last
  report,      \* the ApplyReport being accumulated
  log,         \* per path: what the call in progress did with it
  before,      \* the destination when the call in progress started
  answers,     \* what the decider has answered, per decision context
  hist,        \* the finished calls, oldest first
  mrg,         \* a call of one merge strategy: its inputs and its result
  cmd,         \* apply_template_stack: its template directories and its progress
  cli,         \* CliDecider: its fields, the context, standard input, its answer
  rsv          \* TemplateResolver: the source, the remote, the cached clone

vars ==
  <<tmplRoot, tmpl, tmplPerm, destRoot, fs, perm, inWorkTree, baseRules, pc, dryRun,
    gitIgnore, stack, report, log, before, answers, hist, mrg, cmd, cli, rsv>>

world == <<tmplRoot, tmpl, tmplPerm, inWorkTree, baseRules, mrg, cmd, cli, rsv>>

\* no stack of template directories is being applied
NoCommand == [pc |-> "none"]

\* no decider of the command line is at work
NoDecider == [pc |-> "none"]

\* no template is being resolved
NoResolve == [pc |-> "none"]

\* no merge strategy is being exercised
NoMerge == [strategy |-> "none"]

Actions == {"Overwrite", "Merge", "Skip"}

RootKinds == {"dir", "missing", "file", "symlink"}

BaseRuleSets == {{}, {".DS_Store", ".git/", "a.txt"}, {"sub/"}}

\* relative paths and contents handed to apply_generated_file
GeneratedRels == {<<"a.txt">>, <<".DS_Store">>}

GeneratedContents == {CS}

ZeroReport == [created_files |-> 0, updated_files |-> 0, skipped_files |-> 0, ignored_paths |-> 0]

NoEntry == [outcome |-> "none", action |-> "none", merge |-> None, calls |-> 0, written |-> FALSE]

EmptyLog == [p \in U |-> NoEntry]

Init ==
  /\ tmplRoot \in RootKinds
  /\ tmpl \in (IF tmplRoot = "dir" THEN TemplateTrees ELSE {EmptyTree})
  /\ destRoot \in RootKinds
  /\ fs \in (IF destRoot = "dir" THEN DestTrees ELSE {EmptyTree})
  /\ perm = [p \in U |-> DefaultMode]
  /\ tmplPerm = [p \in U |-> DefaultMode]
  /\ inWorkTree \in BOOLEAN
  /\ baseRules \in (IF inWorkTree THEN BaseRuleSets ELSE {{}})
  /\ pc = "idle"
  /\ dryRun = FALSE
  /\ gitIgnore = FALSE
  /\ stack = <<>>
  /\ report = ZeroReport
  /\ log = EmptyLog
  /\ before = [root |-> destRoot, tree |-> fs]
  /\ answers = {}
  /\ hist = <<>>
  /\ mrg = NoMerge
  /\ cmd = NoCommand
  /\ cli = NoDecider
  /\ rsv = NoResolve

\* ------------------------------------------------------------ helpers
\* fs::read_dir(current) followed by entries.sort_by_key(file_name)
RECURSIVE SortByFileName(_)
SortByFileName(S) ==
  IF S = {} THEN <<>>
  ELSE LET m == CHOOSE x \in S : \A y \in S : Rank(FileName(x)) <= Rank(FileName(y))
       IN  <<m>> \o SortByFileName(S \ {m})

read_dir(current) ==
  {p \in U : Len(p) = Len(current) + 1 /\ Parent(p) = current /\ tmpl[p].kind # "absent"}

\* GitIgnore::detect(dest_root), given what dest_root is at that moment
detect(root) == root = "dir" /\ inWorkTree

\* The frame of one activation of apply_dir_recursive: the sorted entries and
\* the ignore matches precomputed for this directory level.
NewFrame(current, git, tree) ==
  LET entries == SortByFileName(read_dir(current))
      queries == {[rel |-> e, is_dir |-> tmpl[e].kind = "dir"] : e \in Range(entries)}
  IN  [dir |-> current,
       entries |-> entries,
       ignored |-> IF git THEN ignored_set(GitRules(baseRules, tree), queries) ELSE {}]

\* the decider answers a for ctx: a context seen before gets the same answer
Decides(ctx, a) == \A m \in answers : m.ctx = ctx => m.action = a

\* the record of a finished call; `at` is the entry an error arose at
Record(kind, dry, res, at, rep, lg, bef, root, tree) ==
  [kind |-> kind, dry |-> dry, result |-> res, at |-> at, report |-> rep, log |-> lg,
   before |-> bef, after |-> [root |-> root, tree |-> tree]]

\* lines 187-199: what the destination path is after the entry checks; a
\* dry run does not create a missing destination directory
create_dest_dir_DryToo(root, dry) == IF root = "missing" THEN "dir" ELSE root

create_dest_dir(root, dry) == IF root = "missing" /\ ~dry THEN "dir" ELSE root

\* ------------------------------------------------- apply_template_dir
\* ApplyTemplateDir without the check that an existing destination is a
\* directory
ApplyTemplateDir_NoDestCheck(dry) ==
  /\ pc = "idle"
  /\ Len(hist) < MaxRuns
  /\ dryRun' = dry
  /\ before' = [root |-> destRoot, tree |-> fs]
  /\ report' = ZeroReport
  /\ log' = EmptyLog
  /\ LET err == CASE tmplRoot = "missing" -> "TemplateDirNotFound"
                  [] tmplRoot = "symlink" -> "SymlinkNotSupported"
                  [] tmplRoot = "file" -> "TemplateDirNotDir"
                  [] OTHER -> "none"
     IN  IF err # "none"
         THEN /\ hist' = Append(hist, Record("template", dry, err, <<>>, ZeroReport, EmptyLog,
                                             before', destRoot, fs))
              /\ UNCHANGED <<destRoot, pc, gitIgnore, stack>>
         ELSE /\ destRoot' = create_dest_dir(destRoot, dry)
              /\ gitIgnore' = detect(destRoot')
              /\ stack' = <<NewFrame(<<>>, gitIgnore', fs)>>
              /\ pc' = "walk"
              /\ UNCHANGED hist
  /\ UNCHANGED <<world, fs, perm, answers>>

\* lines 161-213 up to the first read_dir
ApplyTemplateDir(dry) ==
  /\ pc = "idle"
  /\ Len(hist) < MaxRuns
  /\ dryRun' = dry
  /\ before' = [root |-> destRoot, tree |-> fs]
  /\ report' = ZeroReport
  /\ log' = EmptyLog
  /\ LET err == CASE tmplRoot = "missing" -> "TemplateDirNotFound"
                  [] tmplRoot = "symlink" -> "SymlinkNotSupported"
                  [] tmplRoot = "file" -> "TemplateDirNotDir"
                  [] destRoot = "symlink" -> "SymlinkNotSupported"
                  [] destRoot = "file" -> "DestDirNotDir"
                  [] OTHER -> "none"
     IN  IF err # "none"
         THEN /\ hist' = Append(hist, Record("template", dry, err, <<>>, ZeroReport, EmptyLog,
                                             before', destRoot, fs))
              /\ UNCHANGED <<destRoot, pc, gitIgnore, stack>>
         ELSE /\ destRoot' = create_dest_dir(destRoot, dry)
              /\ gitIgnore' = detect(destRoot')
              /\ stack' = <<NewFrame(<<>>, gitIgnore', fs)>>
              /\ pc' = "walk"
              /\ UNCHANGED hist
  /\ UNCHANGED <<world, fs, perm, answers>>

\* ---------------------------------------------- apply_dir_recursive
Top == stack[Len(stack)]

\* the entry the loop of the innermost activation is at
Cur == Head(Top.entries)

\* `continue`: the innermost loop moves to its next entry
Advance == [stack EXCEPT ![Len(stack)].entries = Tail(@)]

InLoop == pc = "walk" /\ Top.entries # <<>>

Bump(field) == [report EXCEPT ![field] = @ + 1]

Note(p, what) == [log EXCEPT ![p].outcome = what]

\* the call returns: its record goes to the history
Return(res) ==
  /\ hist' = Append(hist, Record("template", dryRun, res, IF res = "Ok" THEN <<>> ELSE Cur,
                               report', log', before, destRoot, fs'))
  /\ pc' = "idle"
  /\ stack' = <<>>

Continue(st) ==
  /\ stack' = st
  /\ UNCHANGED <<pc, hist>>

Unvisited == UNCHANGED <<world, destRoot, dryRun, gitIgnore, before>>

\* StepSymlink passing over the symlink instead of failing
StepSymlink_Skips ==
  /\ InLoop
  /\ tmpl[Cur].kind = "symlink"
  /\ UNCHANGED <<fs, perm, report, log, answers>>
  /\ Continue(Advance)
  /\ Unvisited

\* lines 414-420: a symlink entry aborts the call
StepSymlink ==
  /\ InLoop
  /\ tmpl[Cur].kind = "symlink"
  /\ UNCHANGED <<fs, perm, report, log, answers>>
  /\ Return("SymlinkNotSupported")
  /\ Unvisited

\* lines 427-431
StepAlwaysIgnore ==
  /\ InLoop
  /\ tmpl[Cur].kind # "symlink"
  /\ should_always_ignore(Cur)
  /\ report' = Bump("ignored_paths")
  /\ log' = Note(Cur, "ignored")
  /\ Continue(Advance)
  /\ UNCHANGED <<fs, perm, answers>>
  /\ Unvisited

NotAlwaysIgnored ==
  /\ InLoop
  /\ tmpl[Cur].kind # "symlink"
  /\ ~should_always_ignore(Cur)

GitIgnored == format_git_rel(Cur, tmpl[Cur].kind = "dir") \in Top.ignored

\* StepGitIgnored counting an ignored directory and entering it all the same
StepGitIgnored_Enters ==
  /\ NotAlwaysIgnored
  /\ GitIgnored
  /\ report' = Bump("ignored_paths")
  /\ log' = Note(Cur, "ignored")
  /\ Continue(IF tmpl[Cur].kind = "dir"
                THEN Append(Advance, NewFrame(Cur, gitIgnore, fs))
                ELSE Advance)
  /\ UNCHANGED <<fs, perm, answers>>
  /\ Unvisited

\* lines 433-439
StepGitIgnored ==
  /\ NotAlwaysIgnored
  /\ GitIgnored
  /\ report' = Bump("ignored_paths")
  /\ log' = Note(Cur, "ignored")
  /\ Continue(Advance)
  /\ UNCHANGED <<fs, perm, answers>>
  /\ Unvisited

\* lines 441-444: recursion into a subdirectory (its read_dir and its
\* ignore batch happen now, against the destination as it is now)
StepRecurse ==
  /\ NotAlwaysIgnored
  /\ ~GitIgnored
  /\ tmpl[Cur].kind = "dir"
  /\ Continue(Append(Advance, NewFrame(Cur, gitIgnore, fs)))
  /\ UNCHANGED <<fs, perm, report, log, answers>>
  /\ Unvisited

\* line 540: an activation has visited all its entries
StepReturn ==
  /\ pc = "walk"
  /\ Top.entries = <<>>
  /\ UNCHANGED <<fs, perm, report, log, answers>>
  /\ IF Len(stack) = 1
     THEN Return("Ok")
     ELSE Continue(SubSeq(stack, 1, Len(stack) - 1))
  /\ Unvisited

\* lines 446-448: an entry that is no regular file is passed over
StepSpecial ==
  /\ NotAlwaysIgnored
  /\ ~GitIgnored
  /\ tmpl[Cur].kind = "special"
  /\ Continue(Advance)
  /\ UNCHANGED <<fs, perm, report, log, answers>>
  /\ Unvisited

AtFile ==
  /\ NotAlwaysIgnored
  /\ ~GitIgnored
  /\ tmpl[Cur].kind = "file"

\* the node at dest_root.join(rel)
DestNode(rel) == IF destRoot = "dir" THEN fs[rel] ELSE Absent

\* lines 451-459: fs::read of a destination path that is a directory fails
StepReadError ==
  /\ AtFile
  /\ DestNode(Cur).kind = "dir"
  /\ UNCHANGED <<fs, perm, report, log, answers>>
  /\ Return("Io")
  /\ Unvisited

\* line 461: the fast path
identical_Never(src_bytes, dest_bytes) == FALSE

identical(src_bytes, dest_bytes) == src_bytes = dest_bytes

\* StepIdentical without the count of the skipped file
StepIdentical_Uncounted ==
  /\ AtFile
  /\ DestNode(Cur).kind = "file"
  /\ identical(tmpl[Cur].data, DestNode(Cur).data)
  /\ report' = report
  /\ log' = Note(Cur, "skipped")
  /\ Continue(Advance)
  /\ UNCHANGED <<fs, perm, answers>>
  /\ Unvisited

\* lines 461-465
StepIdentical ==
  /\ AtFile
  /\ DestNode(Cur).kind = "file"
  /\ identical(tmpl[Cur].data, DestNode(Cur).data)
  /\ report' = Bump("skipped_files")
  /\ log' = Note(Cur, "skipped")
  /\ Continue(Advance)
  /\ UNCHANGED <<fs, perm, answers>>
  /\ Unvisited

\* output_bytes taking the template bytes for Merge
output_bytes_MergeOverwrites(action, src_bytes, merge_bytes) ==
  CASE action = "Skip" -> None
    [] OTHER -> Some(src_bytes)

\* lines 478-492: None stands for `continue` without output bytes
output_bytes(action, src_bytes, merge_bytes) ==
  CASE action = "Skip" -> None
    [] action = "Overwrite" -> Some(src_bytes)
    [] OTHER -> merge_bytes

no_changes_Never(output, dest_bytes) == FALSE

\* lines 494-498
no_changes(output, dest_bytes) == output = dest_bytes

\* lines 467-521: a conflict; the decider answers `action`
StepDecide(action) ==
  /\ AtFile
  /\ DestNode(Cur).kind = "file"
  /\ ~identical(tmpl[Cur].data, DestNode(Cur).data)
  /\ LET src_bytes == tmpl[Cur].data
         dest_bytes == DestNode(Cur).data
         merge_bytes == merge_file(Cur, dest_bytes, src_bytes)
         ctx == [rel |-> Cur, src |-> src_bytes, dest |-> dest_bytes, merge |-> merge_bytes]
         out == output_bytes(action, src_bytes, merge_bytes)
         skip == ~out.some \/ no_changes(out.val, dest_bytes)
         write == ~skip /\ ~dryRun
     IN  /\ Decides(ctx, action)
         /\ answers' = answers \cup {[ctx |-> ctx, action |-> action]}
         /\ report' = IF skip THEN Bump("skipped_files") ELSE Bump("updated_files")
         /\ log' = [log EXCEPT ![Cur] =
                      [outcome |-> IF skip THEN "skipped" ELSE "updated",
                       action |-> action, merge |-> merge_bytes,
                       calls |-> @.calls + 1, written |-> write]]
         /\ write => Writable(perm[Cur])
         /\ fs' = IF write THEN [fs EXCEPT ![Cur] = File(out.val)] ELSE fs
         /\ perm' = IF write THEN [perm EXCEPT ![Cur] = updated_mode(@)] ELSE perm
  /\ Continue(Advance)
  /\ Unvisited

\* StepWriteError undoing the writes the call has made
StepWriteError_RollsBack(action) ==
  /\ AtFile
  /\ DestNode(Cur).kind = "file"
  /\ ~identical(tmpl[Cur].data, DestNode(Cur).data)
  /\ LET src_bytes == tmpl[Cur].data
         dest_bytes == DestNode(Cur).data
         merge_bytes == merge_file(Cur, dest_bytes, src_bytes)
         ctx == [rel |-> Cur, src |-> src_bytes, dest |-> dest_bytes, merge |-> merge_bytes]
         out == output_bytes(action, src_bytes, merge_bytes)
     IN  /\ Decides(ctx, action)
         /\ out.some /\ ~no_changes(out.val, dest_bytes)
         /\ ~dryRun /\ ~Writable(perm[Cur])
         /\ answers' = answers \cup {[ctx |-> ctx, action |-> action]}
         /\ report' = Bump("updated_files")
         /\ log' = [log EXCEPT ![Cur] =
                      [outcome |-> "none", action |-> action, merge |-> merge_bytes,
                       calls |-> @.calls + 1, written |-> FALSE]]
  /\ fs' = before.tree
  /\ UNCHANGED perm
  /\ Return("Io")
  /\ Unvisited

\* lines 500-515: the decider is asked, the result differs from the
\* destination, and fs::write fails on a file the process may not write
StepWriteError(action) ==
  /\ AtFile
  /\ DestNode(Cur).kind = "file"
  /\ ~identical(tmpl[Cur].data, DestNode(Cur).data)
  /\ LET src_bytes == tmpl[Cur].data
         dest_bytes == DestNode(Cur).data
         merge_bytes == merge_file(Cur, dest_bytes, src_bytes)
         ctx == [rel |-> Cur, src |-> src_bytes, dest |-> dest_bytes, merge |-> merge_bytes]
         out == output_bytes(action, src_bytes, merge_bytes)
     IN  /\ Decides(ctx, action)
         /\ out.some /\ ~no_changes(out.val, dest_bytes)
         /\ ~dryRun /\ ~Writable(perm[Cur])
         /\ answers' = answers \cup {[ctx |-> ctx, action |-> action]}
         /\ report' = Bump("updated_files")
         /\ log' = [log EXCEPT ![Cur] =
                      [outcome |-> "none", action |-> action, merge |-> merge_bytes,
                       calls |-> @.calls + 1, written |-> FALSE]]
  /\ UNCHANGED <<fs, perm>>
  /\ Return("Io")
  /\ Unvisited

\* fs::copy gives the new file the permission bits of the file it copies
copy_mode(from) == from

\* lines 524-537: the destination has nothing at the path
StepCreate ==
  /\ AtFile
  /\ DestNode(Cur).kind = "absent"
  /\ UNCHANGED answers
  /\ LET parent == Parent(Cur)
         blocked == ~dryRun /\ parent # <<>> /\ fs[parent].kind = "file"
     IN  IF blocked
         THEN \* fs::create_dir_all(parent) fails: the parent is a file
              /\ UNCHANGED <<fs, perm, report, log>>
              /\ Return("Io")
         ELSE /\ fs' = IF dryRun THEN fs
                       ELSE [p \in U |->
                               CASE p = Cur -> File(tmpl[Cur].data)
                                 [] p = parent -> Dir
                                 [] OTHER -> fs[p]]
              /\ perm' = IF dryRun THEN perm ELSE [perm EXCEPT ![Cur] = copy_mode(tmplPerm[Cur])]
              /\ report' = Bump("created_files")
              /\ log' = [log EXCEPT ![Cur].outcome = "created", ![Cur].written = ~dryRun]
              /\ Continue(Advance)
  /\ Unvisited

\* ------------------------------------------------ apply_generated_file
\* the call returns res with report rep, leaving the destination as (root, tree)
Generated(dry, rel, res, rep, entry, root, tree) ==
  /\ hist' = Append(hist, Record("generated", dry, res, IF res = "Ok" THEN <<>> ELSE rel,
                                 rep, [EmptyLog EXCEPT ![rel] = entry],
                                 [root |-> destRoot, tree |-> fs], root, tree))
  /\ destRoot' = root
  /\ fs' = tree
  /\ perm' = IF tree[rel] = fs[rel] THEN perm
             ELSE IF fs[rel].kind = "file" THEN [perm EXCEPT ![rel] = updated_mode(@)]
             ELSE [perm EXCEPT ![rel] = DefaultMode]

One(field) == [ZeroReport EXCEPT ![field] = 1]

Did(what, written) == [NoEntry EXCEPT !.outcome = what, !.written = written]

\* the decision context offering the bytes the merge registry gives
generated_merge_bytes_Offered(rel, dest_bytes, contents) == merge_file(rel, dest_bytes, contents)

\* line 299: merge_bytes: None
generated_merge_bytes(rel, dest_bytes, contents) == None

\* lines 229-367
ApplyGeneratedFile(dry, rel, contents) ==
  /\ pc = "idle"
  /\ Len(hist) < MaxRuns
  /\ LET rootErr == CASE destRoot = "symlink" -> "SymlinkNotSupported"
                      [] destRoot = "file" -> "DestDirNotDir"
                      [] OTHER -> "none"
         root == create_dest_dir(destRoot, dry)
         query == format_git_rel(rel, FALSE)
         ignored == /\ detect(root)
                    /\ query \in ignored_set(GitRules(baseRules, fs),
                                             {[rel |-> rel, is_dir |-> FALSE]})
         dest == IF root = "dir" THEN fs[rel] ELSE Absent
         parent == Parent(rel)
         merge_bytes == generated_merge_bytes(rel, dest.data, contents)
         ctx == [rel |-> rel, src |-> contents, dest |-> dest.data, merge |-> merge_bytes]
         written == [p \in U |->
                       CASE p = rel -> File(contents)
                         [] p = parent -> Dir
                         [] OTHER -> fs[p]]
     IN  IF should_always_ignore(rel)
         THEN \* lines 242-248
              /\ Generated(dry, rel, "Ok", One("ignored_paths"), Did("ignored", FALSE), destRoot, fs)
              /\ UNCHANGED answers
         ELSE IF rootErr # "none"
         THEN \* lines 250-256
              /\ Generated(dry, rel, rootErr, ZeroReport, NoEntry, destRoot, fs)
              /\ UNCHANGED answers
         ELSE IF ignored
         THEN \* lines 264-274
              /\ Generated(dry, rel, "Ok", One("ignored_paths"), Did("ignored", FALSE), root, fs)
              /\ UNCHANGED answers
         ELSE IF dest.kind = "dir"
         THEN \* lines 278-281: fs::read of a directory fails
              /\ Generated(dry, rel, "Io", ZeroReport, NoEntry, root, fs)
              /\ UNCHANGED answers
         ELSE IF dest.kind = "file" /\ dest.data = contents
         THEN \* lines 282-288
              /\ Generated(dry, rel, "Ok", One("skipped_files"), Did("skipped", FALSE), root, fs)
              /\ UNCHANGED answers
         ELSE IF dest.kind = "file"
         THEN \* lines 290-343
              \E action \in Actions :
                 /\ Decides(ctx, action)
                 /\ answers' = answers \cup {[ctx |-> ctx, action |-> action]}
                 /\ LET skip == action \in {"Skip", "Merge"}
                        fails == ~skip /\ ~dry /\ ~Writable(perm[rel])
                        entry == [outcome |-> IF skip THEN "skipped" ELSE "updated",
                                  action |-> action, merge |-> merge_bytes, calls |-> 1,
                                  written |-> ~skip /\ ~dry]
                    IN  IF fails
                        THEN \* lines 333-336: fs::write fails
                             Generated(dry, rel, "Io", ZeroReport,
                                       [entry EXCEPT !.outcome = "none", !.written = FALSE],
                                       root, fs)
                        ELSE Generated(dry, rel, "Ok",
                                       IF skip THEN One("skipped_files") ELSE One("updated_files"),
                                       entry, root,
                                       IF ~skip /\ ~dry THEN written ELSE fs)
         ELSE IF dry
         THEN \* lines 346-351
              /\ Generated(dry, rel, "Ok", One("created_files"), Did("created", FALSE), root, fs)
              /\ UNCHANGED answers
         ELSE IF parent # <<>> /\ fs[parent].kind = "file"
         THEN \* lines 353-358: fs::create_dir_all(parent) fails
              /\ Generated(dry, rel, "Io", ZeroReport, NoEntry, root, fs)
              /\ UNCHANGED answers
         ELSE \* lines 359-366
              /\ Generated(dry, rel, "Ok", One("created_files"), Did("created", TRUE), root, written)
              /\ UNCHANGED answers
  /\ UNCHANGED <<world, pc, dryRun, gitIgnore, stack, report, log, before>>

Next ==
  \/ \E dry \in BOOLEAN : ApplyTemplateDir(dry)
  \/ StepSymlink
  \/ StepAlwaysIgnore
  \/ StepGitIgnored
  \/ StepRecurse
  \/ StepReturn
  \/ StepSpecial
  \/ StepReadError
  \/ StepIdentical
  \/ \E action \in Actions : StepDecide(action)
  \/ StepCreate
  \/ \E dry \in BOOLEAN, rel \in GeneratedRels, contents \in GeneratedContents :
        ApplyGeneratedFile(dry, rel, contents)

Spec == Init /\ [][Next]_vars

\* ------------------------------------------- runs over files with modes
\* templates of plain files and directories that no ignore rule concerns
MaxPlainEntries == 4

PlainTemplates ==
  {t \in TreesOver(TemplateOptions, MaxPlainEntries) :
      \A p \in Entries(t) :
         /\ t[p].kind \in {"file", "dir"}
         /\ ~should_always_ignore(p)}

PlainDests == DestTrees

\* the modes the files of a destination tree can have
ModeMaps(tree) ==
  {m \in [U -> Modes] : \A p \in U : tree[p].kind # "file" => m[p] = DefaultMode}

\* an existing destination outside any git work tree, its files with any
\* of the modes
PermInit ==
  /\ tmplRoot = "dir"
  /\ tmpl \in PlainTemplates
  /\ destRoot = "dir"
  /\ fs \in PlainDests
  /\ perm \in ModeMaps(fs)
  /\ tmplPerm = [p \in U |-> DefaultMode]
  /\ inWorkTree = FALSE
  /\ baseRules = {}
  /\ pc = "idle"
  /\ dryRun = FALSE
  /\ gitIgnore = FALSE
  /\ stack = <<>>
  /\ report = ZeroReport
  /\ log = EmptyLog
  /\ before = [root |-> destRoot, tree |-> fs]
  /\ answers = {}
  /\ hist = <<>>
  /\ mrg = NoMerge
  /\ cmd = NoCommand
  /\ cli = NoDecider
  /\ rsv = NoResolve

\* the steps such a run can take
PermNext ==
  \/ \E dry \in BOOLEAN : ApplyTemplateDir(dry)
  \/ StepRecurse
  \/ StepReturn
  \/ StepReadError
  \/ StepIdentical
  \/ \E action \in Actions : StepDecide(action)
  \/ \E action \in Actions : StepWriteError(action)
  \/ StepCreate
  \/ \E dry \in BOOLEAN, rel \in GeneratedRels, contents \in GeneratedContents :
        ApplyGeneratedFile(dry, rel, contents)

PermSpec == PermInit /\ [][PermNext]_vars

\* ------------------------------------------------- the merge strategies
\* a strategy about to be called on destination and template bytes
Call(strategy, dest_bytes, src_bytes) ==
  [strategy |-> strategy, dest |-> dest_bytes, src |-> src_bytes, done |-> FALSE, out |-> None]

TomlBytes == {Unparsable} \cup {Parsed(d) : d \in TomlDocs}

YamlBytes == {Unparsable} \cup {Yaml(d, e) : d \in YamlDocs, e \in BOOLEAN}

\* "A=d", "B=d", "export B=d", "# d"
EnvDestLines ==
  { <<"A", "=", "d">>, <<"B", "=", "d">>, Export \o <<"B", "=", "d">>, <<"#", " ", "d">> }

\* "A=t", "B=t", "export A=t", " B = t", "# t", "", "1B=t", "=t", "B"
EnvTemplateLines ==
  { <<"A", "=", "t">>, <<"B", "=", "t">>, Export \o <<"A", "=", "t">>,
    <<" ", "B", " ", "=", " ", "t">>, <<"#", " ", "t">>, <<>>, <<"1", "B", "=", "t">>,
    <<"=", "t">>, <<"B">> }

\* the sequences of at most n elements of S
RECURSIVE SeqsUpTo(_, _)
SeqsUpTo(S, n) ==
  IF n = 0 THEN {<<>>}
  ELSE LET shorter == SeqsUpTo(S, n - 1)
       IN  shorter \cup {Append(q, x) : q \in shorter, x \in S}

\* the texts over the lines of S, with and without a final newline
Texts(S) ==
  {Text(ls, nl) : ls \in SeqsUpTo(S, MaxLines), nl \in BOOLEAN} \ {Text(<<>>, TRUE)}

\* the newline-terminated texts over the lines of S
TemplateTexts(S) == {Text(ls, TRUE) : ls \in SeqsUpTo(S, MaxLines) \ {<<>>}}

\* `use a;`, `fn foo`, a comment, a macro call, `namespace A;`
TsDestNodes ==
  { Node("use_declaration", <<"use", " ", "a;">>, NoName),
    Node("function_item", <<"fn", " ", "foo">>, Name("foo")),
    Node("line_comment", <<"//">>, NoName),
    Node("expression_statement", <<"m!">>, NoName),
    Node("namespace_definition", <<"namespace", " ", "A;">>, Name("A")) }

\* `use  a;`, `use b;`, `fn foo` with another body, `fn bar`, `struct foo`,
\* a function whose name is not found, `namespace B;`
TsTemplateNodes ==
  { Node("use_declaration", <<"use", " ", " ", "a;">>, NoName),
    Node("use_declaration", <<"use", " ", "b;">>, NoName),
    Node("function_item", <<"fn", " ", "foo", "{}">>, Name("foo")),
    Node("function_item", <<"fn", " ", "bar">>, Name("bar")),
    Node("struct_item", <<"struct", " ", "foo">>, Name("foo")),
    Node("function_item", <<"fn">>, NoName),
    Node("namespace_definition", <<"namespace", " ", "B;">>, Name("B")) }

\* a source file that parses into at most MaxItems top-level nodes
Sources(nodes) == {Parsed(q) : q \in SeqsUpTo(nodes, MaxItems)}

\* "export A=d", "x" (a command), "# d"
EnvrcDestLines ==
  { ExportWord \o <<" ", "A", "=", "d">>, <<"x">>, <<"#", " ", "d">> }

\* "export A=t", "export B=t", "B=t", "x", ""
EnvrcTemplateLines ==
  { ExportWord \o <<" ", "A", "=", "t">>, ExportWord \o <<" ", "B", "=", "t">>,
    <<"B", "=", "t">>, <<"x">>, <<>> }

\* `a {}`, `@x;`, `@import "b";`, a comment
CssDestNodes ==
  { Node("rule_set", <<"a", " ", "{}">>, NoName),
    Node("at_rule", <<"@x;">>, NoName),
    Node("import_statement", <<"@import", " ", "b;">>, NoName),
    Node("comment", <<"/**/">>, NoName) }

\* `a  {}`, `b {}`, `@x;`, `@import "c";`
CssTemplateNodes ==
  { Node("rule_set", <<"a", " ", " ", "{}">>, NoName),
    Node("rule_set", <<"b", " ", "{}">>, NoName),
    Node("at_rule", <<"@x;">>, NoName),
    Node("import_statement", <<"@import", " ", "c;">>, NoName) }

\* `# a`, `## b`, `# b`
MdDestHeadings ==
  { Heading(1, <<"a">>, "x"), Heading(2, <<"b">>, "x"), Heading(1, <<"b">>, "x") }

\* `# a`, `# c`, `## b`, `## d`, each with a body of its own
MdTemplateHeadings ==
  { Heading(1, <<"a">>, "y"), Heading(1, <<"c">>, "y"), Heading(2, <<"b">>, "y"),
    Heading(2, <<"d">>, "y") }

\* scripts and stylesheets, a script without src, a div
HtmlDestElements ==
  { Element("script", Name(<<"x.js">>)), Element("link", Name(<<"x.css">>)),
    Element("script", NoName), Element("div", NoName) }

HtmlTemplateElements ==
  { Element("script", Name(<<"x.js">>)), Element("script", Name(<<"y.js">>)),
    Element("link", Name(<<"x.css">>)), Element("link", Name(<<"y.css">>)),
    Element("div", NoName) }

\* the inputs one strategy is called on
MergeCalls ==
  \/ \E d \in Texts(EnvrcDestLines) \cup {Binary}, t \in TemplateTexts(EnvrcTemplateLines) :
        mrg = Call("envrc", d, t)
  \/ \E d \in Sources(CssDestNodes) \cup {Unparsable}, t \in Sources(CssTemplateNodes) :
        mrg = Call("css", d, t)
  \/ \E d \in Sources(MdDestHeadings), t \in Sources(MdTemplateHeadings) :
        mrg = Call("markdown", d, t)
  \/ \E d \in Sources(HtmlDestElements), t \in Sources(HtmlTemplateElements) :
        mrg = Call("html", d, t)
  \/ \E d \in TomlBytes, t \in TomlBytes : mrg = Call("toml", d, t)
  \/ \E d \in YamlBytes, t \in YamlBytes : mrg = Call("yaml", d, t)
  \/ \E d \in Texts(EnvDestLines) \cup {Binary}, t \in TemplateTexts(EnvTemplateLines) :
        mrg = Call("env", d, t)
  \/ \E d \in Texts({"a", "b"}) \cup {Binary}, t \in TemplateTexts({"b", "c"}) \cup {Binary} :
        mrg = Call("lines", d, t)
  \/ \E d \in Sources(TsDestNodes) \cup {Unparsable}, t \in Sources(TsTemplateNodes),
         rules \in {RustRules, PhpRules} :
        mrg = [strategy |-> "tree_sitter", rules |-> rules, dest |-> d, src |-> t,
               done |-> FALSE, out |-> None]

\* no apply call takes place; one strategy is called on one pair of inputs
MergeInit ==
  /\ tmplRoot = "missing"
  /\ tmpl = EmptyTree
  /\ destRoot = "missing"
  /\ fs = EmptyTree
  /\ perm = [p \in U |-> DefaultMode]
  /\ tmplPerm = [p \in U |-> DefaultMode]
  /\ inWorkTree = FALSE
  /\ baseRules = {}
  /\ pc = "idle"
  /\ dryRun = FALSE
  /\ gitIgnore = FALSE
  /\ stack = <<>>
  /\ report = ZeroReport
  /\ log = EmptyLog
  /\ before = [root |-> destRoot, tree |-> fs]
  /\ answers = {}
  /\ hist = <<>>
  /\ cmd = NoCommand
  /\ cli = NoDecider
  /\ rsv = NoResolve
  /\ MergeCalls

\* the strategy returns `out`
Returns(out) ==
  /\ ~mrg.done
  /\ mrg' = [mrg EXCEPT !.done = TRUE, !.out = out]
  /\ UNCHANGED <<tmplRoot, tmpl, tmplPerm, destRoot, fs, perm, inWorkTree, baseRules, pc,
                 dryRun, gitIgnore, stack, report, log, before, answers, hist, cmd, cli, rsv>>

MergeToml == mrg.strategy = "toml" /\ Returns(merge_toml(mrg.dest, mrg.src))

MergeYaml == mrg.strategy = "yaml" /\ Returns(merge_yaml(mrg.dest, mrg.src))

MergeEnv == mrg.strategy = "env" /\ Returns(merge_env(mrg.dest, mrg.src))

MergeLines == mrg.strategy = "lines" /\ Returns(merge_lines(mrg.dest, mrg.src))

\* merge_rust, merge_php
MergeTreeSitter ==
  /\ mrg.strategy = "tree_sitter"
  /\ Returns(merge_tree_sitter_named_top_level(mrg.dest, mrg.src, mrg.rules))

MergeEnvrc == mrg.strategy = "envrc" /\ Returns(merge_envrc(mrg.dest, mrg.src))

\* merge_css
MergeCss ==
  /\ mrg.strategy = "css"
  /\ Returns(merge_tree_sitter_text_top_level(mrg.dest, mrg.src, CssKinds))

MergeMarkdown ==
  mrg.strategy = "markdown" /\ Returns(merge_markdown_sections(mrg.dest, mrg.src))

MergeHtml == mrg.strategy = "html" /\ Returns(merge_html_assets(mrg.dest, mrg.src))

MergeNext ==
  \/ MergeEnvrc
  \/ MergeCss
  \/ MergeMarkdown
  \/ MergeHtml
  \/ MergeToml
  \/ MergeYaml
  \/ MergeEnv
  \/ MergeLines
  \/ MergeTreeSitter

MergeSpec == MergeInit /\ [][MergeNext]_vars

\* ------------------------------------------------ apply_template_stack
MaxStacks == 2

\* template directories of plain files and directories
StackTemplates ==
  {t \in TemplateTrees :
      \A p \in Entries(t) :
         /\ t[p].kind \in {"file", "dir"}
         /\ ~should_always_ignore(p)}

\* resolve_template_dirs: the directories a template name stands for
ResolvedDirs == {q \in SeqsUpTo(StackTemplates, MaxRuns) : q # <<>>}

StackInit ==
  /\ tmplRoot = "dir"
  /\ tmpl = EmptyTree
  /\ destRoot = "dir"
  /\ fs \in PlainDests
  /\ fs[<<".gitignore">>].kind = "absent"
  /\ perm = [p \in U |-> DefaultMode]
  /\ tmplPerm = [p \in U |-> DefaultMode]
  /\ inWorkTree = FALSE
  /\ baseRules = {}
  /\ pc = "idle"
  /\ dryRun = FALSE
  /\ gitIgnore = FALSE
  /\ stack = <<>>
  /\ report = ZeroReport
  /\ log = EmptyLog
  /\ before = [root |-> destRoot, tree |-> fs]
  /\ answers = {}
  /\ hist = <<>>
  /\ mrg = NoMerge
  /\ cli = NoDecider
  /\ rsv = NoResolve
  /\ \E dirs \in ResolvedDirs :
        cmd = [pc |-> "idle", template_dirs |-> dirs, rest |-> <<>>, dry |-> FALSE,
               report |-> ZeroReport, from |-> before, runs |-> <<>>]

\* the fields of ApplyReport added one by one (main.rs 184-187)
AddReport(a, b) ==
  [created_files |-> a.created_files + b.created_files,
   updated_files |-> a.updated_files + b.updated_files,
   skipped_files |-> a.skipped_files + b.skipped_files,
   ignored_paths |-> a.ignored_paths + b.ignored_paths]

\* the record of a finished apply_template_stack; calls are the records of
\* its apply_template_dir calls, the i-th on template_dirs[i]
StackRecord(res, rep) ==
  [dry |-> cmd.dry, result |-> res, report |-> rep, template_dirs |-> cmd.template_dirs,
   from |-> cmd.from, to |-> [root |-> destRoot, tree |-> fs], calls |-> hist]

\* how many directories of the stack the loop has taken
Taken == Len(cmd.template_dirs) - Len(cmd.rest)

Apart == UNCHANGED <<tmplRoot, tmplPerm, destRoot, fs, perm, inWorkTree, baseRules, pc, dryRun,
                     gitIgnore, stack, report, log, before, answers, mrg, cli, rsv>>

\* main.rs 178-180: the directories are resolved, the report is zero
ApplyTemplateStack(dry) ==
  /\ cmd.pc = "idle"
  /\ pc = "idle"
  /\ Len(cmd.runs) < MaxStacks
  /\ cmd' = [cmd EXCEPT !.pc = "loop", !.rest = cmd.template_dirs, !.dry = dry,
                        !.report = ZeroReport,
                        !.from = [root |-> destRoot, tree |-> fs]]
  /\ UNCHANGED <<tmpl, hist>>
  /\ Apart

\* main.rs 181: the loop takes the next directory
StackTake ==
  /\ cmd.pc = "loop"
  /\ cmd.rest # <<>>
  /\ tmpl' = Head(cmd.rest)
  /\ cmd' = [cmd EXCEPT !.pc = "call", !.rest = Tail(cmd.rest)]
  /\ UNCHANGED hist
  /\ Apart

\* main.rs 183: apply_template_dir(&dir, dest_dir, options, decider)
StackApply ==
  /\ cmd.pc = "call"
  /\ Len(hist) < Taken
  /\ ApplyTemplateDir(cmd.dry)

\* StackAdd putting the destination back to where the stack started
StackAdd_FromStart ==
  /\ cmd.pc = "call"
  /\ pc = "idle"
  /\ Len(hist) = Taken
  /\ LET r == hist[Len(hist)]
     IN  IF r.result = "Ok"
         THEN /\ cmd' = [cmd EXCEPT !.pc = "loop", !.report = AddReport(@, r.report)]
              /\ fs' = cmd.from.tree
              /\ UNCHANGED hist
         ELSE /\ cmd' = [cmd EXCEPT !.pc = "idle",
                                    !.runs = Append(@, StackRecord(r.result, ZeroReport))]
              /\ hist' = <<>>
              /\ UNCHANGED fs
  /\ UNCHANGED <<tmplRoot, tmpl, tmplPerm, destRoot, perm, inWorkTree, baseRules, pc, dryRun,
                 gitIgnore, stack, report, log, before, answers, mrg, cli, rsv>>

\* main.rs 183-187: the call has returned; an error leaves the function
\* through `?`, a report is added to the accumulated one
StackAdd ==
  /\ cmd.pc = "call"
  /\ pc = "idle"
  /\ Len(hist) = Taken
  /\ LET r == hist[Len(hist)]
     IN  IF r.result = "Ok"
         THEN /\ cmd' = [cmd EXCEPT !.pc = "loop", !.report = AddReport(@, r.report)]
              /\ UNCHANGED hist
         ELSE /\ cmd' = [cmd EXCEPT !.pc = "idle",
                                    !.runs = Append(@, StackRecord(r.result, ZeroReport))]
              /\ hist' = <<>>
  /\ UNCHANGED tmpl
  /\ Apart

\* main.rs 189: Ok(report)
StackReturn ==
  /\ cmd.pc = "loop"
  /\ cmd.rest = <<>>
  /\ cmd' = [cmd EXCEPT !.pc = "idle", !.runs = Append(@, StackRecord("Ok", cmd.report))]
  /\ hist' = <<>>
  /\ UNCHANGED tmpl
  /\ Apart

StackNext ==
  \/ \E dry \in BOOLEAN : ApplyTemplateStack(dry)
  \/ StackTake
  \/ StackApply
  \/ StackAdd
  \/ StackReturn
  \/ StepRecurse
  \/ StepReturn
  \/ StepReadError
  \/ StepIdentical
  \/ \E action \in Actions : StepDecide(action)
  \/ StepCreate

StackSpec == StackInit /\ [][StackNext]_vars


\* ------------------------------------- template files with modes
\* rw-r--r-- and r--r--r--
TemplateModes == {"0644", "0444"}

\* an existing destination outside any git work tree, the files of the
\* template with any of the template modes
CopyInit ==
  /\ tmplRoot = "dir"
  /\ tmpl \in StackTemplates
  /\ tmplPerm \in {m \in [U -> TemplateModes] :
                      \A p \in U : tmpl[p].kind # "file" => m[p] = DefaultMode}
  /\ destRoot = "dir"
  /\ fs \in PlainDests
  /\ perm = [p \in U |-> DefaultMode]
  /\ inWorkTree = FALSE
  /\ baseRules = {}
  /\ pc = "idle"
  /\ dryRun = FALSE
  /\ gitIgnore = FALSE
  /\ stack = <<>>
  /\ report = ZeroReport
  /\ log = EmptyLog
  /\ before = [root |-> destRoot, tree |-> fs]
  /\ answers = {}
  /\ hist = <<>>
  /\ mrg = NoMerge
  /\ cmd = NoCommand
  /\ cli = NoDecider
  /\ rsv = NoResolve

CopyNext ==
  \/ \E dry \in BOOLEAN : ApplyTemplateDir(dry)
  \/ StepRecurse
  \/ StepReturn
  \/ StepReadError
  \/ StepIdentical
  \/ \E action \in Actions : StepDecide(action)
  \/ StepCreate

CopySpec == CopyInit /\ [][CopyNext]_vars

\* ------------------------------------------- the command-line decider
\* standard input: the lines still to be read, each the sequence of its
\* characters with its line feed; InvalidLine is a line that is not UTF-8

\* length of the input stream in lines
MaxInput == 3
\* the prompts counted; one more than an input of MaxInput lines can answer
MaxPrompts == MaxInput + 2

InvalidLine == <<"invalid">>

\* "\n", "m\n", " M \n", "o\n", "s\n", "d\n", "x\n", "mo\n"
TerminatedLines ==
  { <<"\n">>, <<"m", "\n">>, <<" ", "M", " ", "\n">>, <<"o", "\n">>, <<"s", "\n">>,
    <<"d", "\n">>, <<"x", "\n">>, <<"m", "o", "\n">> }

\* "S", "m": a last line that the end of the stream terminates
LastLines == { <<"S">>, <<"m">> }

InputStreams ==
  UNION {[1..n -> TerminatedLines \cup {InvalidLine}] : n \in 0..MaxInput}
    \cup {Append(st, l) : st \in UNION {[1..n -> TerminatedLines] : n \in 0..(MaxInput - 1)},
                          l \in LastLines}

\* char::to_ascii_lowercase on the letters of the inputs
lower(c) ==
  CASE c = "M" -> "m"
    [] c = "O" -> "o"
    [] c = "S" -> "s"
    [] c = "D" -> "d"
    [] OTHER -> c

to_ascii_lowercase(s) == [i \in DOMAIN s |-> lower(s[i])]

\* BufRead::read_line: the next line; at the end of the stream Ok(0), which
\* leaves the line empty; Err for a line that is not UTF-8
read_line(stdin) ==
  IF stdin = <<>> THEN [ok |-> TRUE, line |-> <<>>, rest |-> <<>>]
  ELSE IF Head(stdin) = InvalidLine THEN [ok |-> FALSE, line |-> <<>>, rest |-> Tail(stdin)]
  ELSE [ok |-> TRUE, line |-> Head(stdin), rest |-> Tail(stdin)]

\* the match taking "m" or "" for Merge whether or not merge is available
choose_MergeAnyway(choice, merge_available) ==
  CASE choice \in {<<>>, <<"m">>} -> "Merge"
    [] choice = <<"o">> -> "Overwrite"
    [] choice = <<"s">> -> "Skip"
    [] OTHER -> "again"

\* main.rs 350-364: what one choice makes of the prompt, an action to
\* return or "again" for another round of the loop ("d" prints the diffs,
\* anything else is an unknown choice)
choose(choice, merge_available) ==
  CASE choice \in {<<>>, <<"m">>} -> IF merge_available THEN "Merge" ELSE "again"
    [] choice = <<"o">> -> "Overwrite"
    [] choice = <<"s">> -> "Skip"
    [] OTHER -> "again"

\* main.rs 390-395: the answer of a decider that does not prompt
default_answer(default_action, merge_available) ==
  IF default_action = "Merge" /\ ~merge_available THEN "Skip" ELSE default_action

\* a decider as CliDecider::new builds it, a context by whether it holds
\* merge_bytes, and an input stream; decide has been called
CliInit ==
  /\ tmplRoot = "missing"
  /\ tmpl = EmptyTree
  /\ destRoot = "missing"
  /\ fs = EmptyTree
  /\ perm = [p \in U |-> DefaultMode]
  /\ tmplPerm = [p \in U |-> DefaultMode]
  /\ inWorkTree = FALSE
  /\ baseRules = {}
  /\ pc = "idle"
  /\ dryRun = FALSE
  /\ gitIgnore = FALSE
  /\ stack = <<>>
  /\ report = ZeroReport
  /\ log = EmptyLog
  /\ before = [root |-> destRoot, tree |-> fs]
  /\ answers = {}
  /\ hist = <<>>
  /\ mrg = NoMerge
  /\ cmd = NoCommand
  /\ rsv = NoResolve
  /\ \E d \in Actions, n \in BOOLEAN, m \in BOOLEAN, st \in InputStreams :
        cli = [pc |-> "decide", default_action |-> d, non_interactive |-> n,
               merge_available |-> m, stdin |-> st, prompts |-> 0, choice |-> <<>>,
               out |-> "none"]

Aside ==
  UNCHANGED <<tmplRoot, tmpl, tmplPerm, destRoot, fs, perm, inWorkTree, baseRules, pc, dryRun,
              gitIgnore, stack, report, log, before, answers, hist, mrg, cmd, rsv>>

\* main.rs 388-398: CliDecider::decide
CliDecide ==
  /\ cli.pc = "decide"
  /\ cli' = IF cli.non_interactive
              THEN [cli EXCEPT !.pc = "returned",
                               !.out = default_answer(cli.default_action, cli.merge_available)]
              ELSE [cli EXCEPT !.pc = "prompt"]
  /\ Aside

\* main.rs 328-365: one round of the loop of CliDecider::prompt
Prompt ==
  /\ cli.pc = "prompt"
  /\ LET r == read_line(cli.stdin)
         choice == to_ascii_lowercase(trim(r.line))
         a == IF r.ok THEN choose(choice, cli.merge_available) ELSE "Skip"
     IN  cli' = [cli EXCEPT !.stdin = r.rest,
                            !.prompts = IF @ < MaxPrompts THEN @ + 1 ELSE @,
                            !.choice = IF r.ok THEN choice ELSE InvalidLine,
                            !.pc = IF a = "again" THEN "prompt" ELSE "returned",
                            !.out = IF a = "again" THEN "none" ELSE a]
  /\ Aside

CliNext == CliDecide \/ Prompt

CliSpec == CliInit /\ [][CliNext]_vars

\* The loop of prompt does not wait for anything but read_line, and
\* read_line returns at once on a stream that holds a line or has ended:
\* a round that can be taken is taken.
CliLive == CliSpec /\ WF_vars(CliNext)

\* ------------------------------------------------ git-backed templates
\* A ref is the sequence of its characters.
\* "HEAD", what resolve_template_def takes when the source names no ref
RefHead == <<"H", "E", "A", "D">>

RefMain == <<"m", "a", "i", "n">>

RefTopic == <<"t", "o", "p", "i", "c">>

\* "fix/x", a branch name with a slash
RefSlash == <<"f", "i", "x", "/", "x">>

\* "deadbeef", an abbreviated commit id
RefHex == <<"d", "e", "a", "d", "b", "e", "e", "f">>

\* "beef", hexadecimal digits but fewer than seven
RefShort == <<"b", "e", "e", "f">>

RefTag == <<"v", "1">>

GitRefs == {RefHead, RefMain, RefTopic, RefSlash, RefHex, RefShort, RefTag}

HexDigits == {"0", "1", "a", "b", "c", "d", "e", "f", "A", "B", "C", "D", "E", "F"}

\* resolve.rs 267-272
looks_like_hex(s) == Len(s) >= 7 /\ \A i \in DOMAIN s : s[i] \in HexDigits

\* str::contains('/')
contains_slash(s) == \E i \in DOMAIN s : s[i] = "/"

\* format!("origin/{git_ref}")
origin(git_ref) == <<"o", "r", "i", "g", "i", "n", "/">> \o git_ref

\* HEAD of a repository without a commit
Unborn == <<>>

\* The remote repository, which the clone mirrors after clone or fetch: its
\* branches (main is the default one; none at all in a repository without
\* a commit), its tags, the commits it holds by id, and the commits, named
\* by ref, whose tree has the template directory.
Remotes ==
  [branches : {{}} \cup {{RefMain} \cup b : b \in SUBSET {RefTopic, RefSlash}},
   tags : SUBSET {RefTag},
   commits : SUBSET {RefHex},
   holds : {{}, {RefMain}, GitRefs \ {RefMain, RefHead}, GitRefs \ {RefHead}},
   reachable : BOOLEAN]

\* what `git clone` leaves checked out
DefaultHead(remote) == IF RefMain \in remote.branches THEN RefMain ELSE Unborn

\* the names `git checkout --detach <name>` resolves in the clone: HEAD once
\* there is a commit, the local branch of the default branch, a tag, a
\* commit id, a remote-tracking branch
Resolves(remote, head, name) ==
  \/ name = RefHead /\ head # Unborn
  \/ name = RefMain /\ RefMain \in remote.branches
  \/ name \in remote.tags
  \/ name \in remote.commits
  \/ \E b \in remote.branches : name = origin(b)

\* the commit a resolved name stands for, named by its ref
CommitOf(remote, head, name) ==
  IF name = RefHead THEN head
  ELSE IF \E b \in remote.branches : name = origin(b)
         THEN CHOOSE b \in remote.branches : name = origin(b)
         ELSE name

\* resolve.rs 247-259: Ok and the new HEAD of the clone, or the git error
git_checkout_detach(remote, head, name) ==
  IF Resolves(remote, head, name)
    THEN [ok |-> TRUE, head |-> CommitOf(remote, head, name)]
    ELSE [ok |-> FALSE, head |-> head]

\* the states of the cache directory of (repo, git_ref) when a call starts:
\* absent, or the clone an earlier call left, at the default head or at
\* the commit of the ref
Caches(remote, git_ref) ==
  {[exists |-> FALSE, head |-> Unborn], [exists |-> TRUE, head |-> DefaultHead(remote)]}
    \cup (IF Resolves(remote, DefaultHead(remote), git_ref)
            THEN {[exists |-> TRUE,
                   head |-> CommitOf(remote, DefaultHead(remote), git_ref)]}
            ELSE {})

\* resolve_template_dir has been called for a template of a git source
ResolveInit ==
  /\ tmplRoot = "missing"
  /\ tmpl = EmptyTree
  /\ destRoot = "missing"
  /\ fs = EmptyTree
  /\ perm = [p \in U |-> DefaultMode]
  /\ tmplPerm = [p \in U |-> DefaultMode]
  /\ inWorkTree = FALSE
  /\ baseRules = {}
  /\ pc = "idle"
  /\ dryRun = FALSE
  /\ gitIgnore = FALSE
  /\ stack = <<>>
  /\ report = ZeroReport
  /\ log = EmptyLog
  /\ before = [root |-> destRoot, tree |-> fs]
  /\ answers = {}
  /\ hist = <<>>
  /\ mrg = NoMerge
  /\ cmd = NoCommand
  /\ cli = NoDecider
  /\ \E g \in GitRefs, r \in Remotes :
        \E c \in Caches(r, g) :
           rsv = [pc |-> "clone", git_ref |-> g, remote |-> r, cache |-> c,
                  tried |-> <<>>, result |-> "none"]

Elsewhere ==
  UNCHANGED <<tmplRoot, tmpl, tmplPerm, destRoot, fs, perm, inWorkTree, baseRules, pc, dryRun,
              gitIgnore, stack, report, log, before, answers, hist, mrg, cmd, cli>>

Fails(err) == rsv' = [rsv EXCEPT !.pc = "returned", !.result = err]

\* resolve.rs 211-217: no cached clone, `git clone`
EnsureClone ==
  /\ rsv.pc = "clone"
  /\ ~rsv.cache.exists
  /\ IF rsv.remote.reachable
       THEN rsv' = [rsv EXCEPT !.pc = "checkout",
                               !.cache = [exists |-> TRUE, head |-> DefaultHead(rsv.remote)]]
       ELSE Fails("GitCommandFailed")
  /\ Elsewhere

\* resolve.rs 218-232: a cached clone, `git fetch` whose result is dropped
EnsureFetch ==
  /\ rsv.pc = "clone"
  /\ rsv.cache.exists
  /\ rsv' = [rsv EXCEPT !.pc = "checkout"]
  /\ Elsewhere

\* resolve.rs 236-242: checkout of the ref as given; on failure the
\* fallback is tried unless the ref has a slash or looks like a commit id,
\* and then the function goes on to return the clone
EnsureCheckout ==
  /\ rsv.pc = "checkout"
  /\ LET r == git_checkout_detach(rsv.remote, rsv.cache.head, rsv.git_ref)
     IN  rsv' = [rsv EXCEPT !.cache.head = r.head,
                            !.tried = Append(@, rsv.git_ref),
                            !.pc = IF ~r.ok /\ ~contains_slash(rsv.git_ref)
                                          /\ ~looks_like_hex(rsv.git_ref)
                                     THEN "fallback" ELSE "is_dir"]
  /\ Elsewhere

\* resolve.rs 240-241: checkout of origin/<ref>, whose error is returned
EnsureFallback ==
  /\ rsv.pc = "fallback"
  /\ LET r == git_checkout_detach(rsv.remote, rsv.cache.head, origin(rsv.git_ref))
     IN  IF r.ok
           THEN rsv' = [rsv EXCEPT !.cache.head = r.head,
                                   !.tried = Append(@, origin(rsv.git_ref)),
                                   !.pc = "is_dir"]
           ELSE rsv' = [rsv EXCEPT !.tried = Append(@, origin(rsv.git_ref)),
                                   !.pc = "returned", !.result = "GitCommandFailed"]
  /\ Elsewhere

\* resolve.rs 155-157, 301-320: the path inside the clone must be a directory
EnsureIsDir ==
  /\ rsv.pc = "is_dir"
  /\ rsv' = [rsv EXCEPT !.pc = "returned",
                        !.result = IF rsv.cache.head \in rsv.remote.holds
                                     THEN "Ok" ELSE "TemplatePathNotDir"]
  /\ Elsewhere

ResolveNext ==
  \/ EnsureClone
  \/ EnsureFetch
  \/ EnsureCheckout
  \/ EnsureFallback
  \/ EnsureIsDir

ResolveSpec == ResolveInit /\ [][ResolveNext]_vars

\* ------------------------------------------------------------ views
\* The calls to speak about: the finished ones and the one in progress.
Running ==
  [kind |-> "template", dry |-> dryRun, result |-> "running", at |-> <<>>,
   report |-> report, log |-> log, before |-> before,
   after |-> [root |-> destRoot, tree |-> fs]]

Finished == Range(hist)

Views == Finished \cup (IF pc = "walk" THEN {Running} ELSE {})

OkTemplateRuns == {h \in Finished : h.kind = "template" /\ h.result = "Ok"}

Total(rep) == rep.created_files + rep.updated_files + rep.skipped_files + rep.ignored_paths

RegularFiles == {p \in U : tmpl[p].kind = "file"}

IsUnder(d, p) == Len(d) < Len(p) /\ SubSeq(p, 1, Len(d)) = d

\* the template directories the call counted as ignored
IgnoredDirs(h) == {d \in U : tmpl[d].kind = "dir" /\ h.log[d].outcome = "ignored"}

\* p lies beneath a directory the call ignored
Hidden(h, p) == \E d \in IgnoredDirs(h) : IsUnder(d, p)

With(h, what) == {p \in U : h.log[p].outcome = what}

\* depth-first order of the traversal: entries sorted by file name, a
\* directory before what it contains
RECURSIVE Before(_, _)
Before(a, b) ==
  IF a = <<>> THEN b # <<>>
  ELSE IF b = <<>> THEN FALSE
  ELSE IF a[1] = b[1] THEN Before(Tail(a), Tail(b))
  ELSE Rank(a[1]) < Rank(b[1])

\* ---------------------------------------------------------------- C1
\* C1 as stated: in every apply_template_dir call that returns Ok, every
\* regular file of the template tree is counted, and the four counts sum to
\* the number of regular files of the template tree.
C1_AsStated ==
  \A h \in OkTemplateRuns :
     /\ \A p \in RegularFiles : h.log[p].outcome # "none"
     /\ Total(h.report) = Cardinality(RegularFiles)

\* the ignored entries of the template that are no regular files
IgnoredOthers(h) ==
  {p \in U : tmpl[p].kind \in {"dir", "special"} /\ h.log[p].outcome = "ignored"}

\* C1 amended: in every apply_template_dir call that returns Ok, every
\* regular file that is not beneath an ignored directory adds exactly 1 to
\* exactly one of the four counts, every ignored entry that is no regular
\* file (a directory, whatever it contains, or a special file) adds exactly
\* 1 to ignored_paths, and what lies beneath an ignored directory adds
\* nothing.
C1_Counts ==
  \A h \in OkTemplateRuns :
     LET visible == {p \in RegularFiles : ~Hidden(h, p)}
     IN  /\ \A p \in visible : h.log[p].outcome \in {"created", "updated", "skipped", "ignored"}
         /\ \A p \in U \ visible :
               h.log[p].outcome = (IF p \in IgnoredOthers(h) THEN "ignored" ELSE "none")
         /\ h.report.created_files = Cardinality(With(h, "created") \cap visible)
         /\ h.report.updated_files = Cardinality(With(h, "updated") \cap visible)
         /\ h.report.skipped_files = Cardinality(With(h, "skipped") \cap visible)
         /\ h.report.ignored_paths =
              Cardinality(With(h, "ignored") \cap visible) + Cardinality(IgnoredOthers(h))
         /\ Total(h.report) = Cardinality(visible) + Cardinality(IgnoredOthers(h))

\* an Ok call over a template with an ignored directory and a counted file
C1_Witness ==
  \E h \in OkTemplateRuns :
     /\ IgnoredDirs(h) # {}
     /\ \E p \in RegularFiles : ~Hidden(h, p) /\ h.log[p].outcome \in {"created", "updated", "skipped"}
     /\ Total(h.report) # Cardinality(RegularFiles)

\* ---------------------------------------------------------------- C2
AlwaysOverwrite == \A m \in answers : m.action = "Overwrite"

\* two consecutive calls of apply_template_dir, both returning Ok
Consecutive(i) ==
  /\ hist[i].kind = "template" /\ hist[i + 1].kind = "template"
  /\ hist[i].result = "Ok" /\ hist[i + 1].result = "Ok"

\* C2 as stated: after a non-dry-run apply with a decider that always
\* answers Overwrite, the same call again reports updated_files = 0 and
\* created_files = 0, counts every non-ignored template file as skipped and
\* leaves the destination as it was.
C2_AsStated ==
  \A i \in 1..(Len(hist) - 1) :
     (Consecutive(i) /\ ~hist[i].dry /\ ~hist[i + 1].dry /\ AlwaysOverwrite) =>
        LET second == hist[i + 1]
        IN  /\ second.report.updated_files = 0
            /\ second.report.created_files = 0
            /\ \A p \in RegularFiles :
                  (~Hidden(second, p) /\ second.log[p].outcome # "ignored")
                     => second.log[p].outcome = "skipped"
            /\ second.after = second.before

\* ---------------------------------------------------------------- C3
TemplateViews == {h \in Views : h.kind = "template"}

\* the paths of a call for which the decider was asked
Decided(h) == {p \in U : h.log[p].action # "none"}

\* the bytes an action resolves to: the template bytes for Overwrite, the
\* merge bytes offered to the decider for Merge
Resolved(h, p) ==
  CASE h.log[p].action = "Overwrite" -> Some(tmpl[p].data)
    [] h.log[p].action = "Merge" -> h.log[p].merge
    [] OTHER -> None

\* C3: whenever the bytes an action resolves to equal the destination
\* bytes, the file is counted skipped, not updated, and is not written.
C3_NoOp ==
  \A h \in TemplateViews : \A p \in Decided(h) :
     (Resolved(h, p).some /\ Resolved(h, p).val = h.before.tree[p].data) =>
        /\ h.log[p].outcome = "skipped"
        /\ ~h.log[p].written
        /\ h.after.tree[p] = h.before.tree[p]

\* a non-dry-run call in which Merge was chosen and the merge changed nothing
C3_Witness ==
  \E h \in OkTemplateRuns : \E p \in Decided(h) :
     /\ ~h.dry
     /\ h.log[p].action = "Merge"
     /\ h.log[p].merge = Some(h.before.tree[p].data)
     /\ h.log[p].outcome = "skipped"
     /\ h.report.updated_files = 0

\* ---------------------------------------------------------------- C4
\* C4: a call with dry_run = true (apply_template_dir or
\* apply_generated_file) leaves the destination directory and every entry
\* of the destination tree as they were; a missing directory stays missing.
C4_DryRunPure == \A h \in Views : h.dry => h.after = h.before

\* a dry run into a missing destination that counted a created file, and a
\* dry apply_generated_file that counted an update
C4_Witness ==
  /\ \E h \in OkTemplateRuns :
        h.dry /\ h.before.root = "missing" /\ h.report.created_files > 0
  /\ \E h \in Finished :
        h.kind = "generated" /\ h.dry /\ h.report.created_files = 1 /\ h.after.root = "missing"

\* ---------------------------------------------------------------- C5
\* C5 as stated: a dry run and a real run of apply_template_dir that start
\* from the same destination (the decider answering the same for the same
\* context) return the same result and the same ApplyReport.
C5_AsStated ==
  \A i \in 1..(Len(hist) - 1) :
     LET d == hist[i]
         r == hist[i + 1]
     IN  (/\ d.kind = "template" /\ r.kind = "template"
          /\ d.dry /\ ~r.dry
          /\ d.before = r.before)
            => d.result = r.result /\ d.report = r.report

\* ---------------------------------------------------------------- C6
\* the conflicts of a call: the template files the call reached and did not
\* ignore whose destination path held a file with other bytes
Conflict(h, p) ==
  /\ p \in RegularFiles
  /\ ~Hidden(h, p)
  /\ h.log[p].outcome # "ignored"
  /\ h.before.root = "dir"
  /\ h.before.tree[p].kind = "file"
  /\ h.before.tree[p].data # tmpl[p].data

\* C6: in dry and real runs alike the decider is asked at most once per
\* path and only for a conflict; a call that returns Ok has asked it once
\* for every conflict, a call that fails once for every conflict before the
\* entry it fails at; a byte-identical file is counted skipped and left
\* untouched without a decider call.
C6_DecideOnce ==
  \A h \in TemplateViews : \A p \in U :
     /\ h.log[p].calls <= 1
     /\ h.log[p].calls = 1 => Conflict(h, p)
     /\ (h.result = "Ok" /\ Conflict(h, p)) => h.log[p].calls = 1
     /\ (h.result \in {"Io", "SymlinkNotSupported"} /\ Conflict(h, p) /\ Before(p, h.at))
           => h.log[p].calls = 1
     /\ (/\ h.result = "Ok" /\ p \in RegularFiles /\ ~Hidden(h, p)
         /\ h.log[p].outcome # "ignored"
         /\ h.before.tree[p] = File(tmpl[p].data))
           => /\ h.log[p].calls = 0
              /\ h.log[p].outcome = "skipped"
              /\ h.after.tree[p] = h.before.tree[p]

\* an Ok call with a conflict (decider asked once) and an identical file
\* (decider not asked)
C6_Witness ==
  \E h \in OkTemplateRuns : \E p, q \in RegularFiles :
     /\ Conflict(h, p) /\ h.log[p].calls = 1
     /\ h.before.tree[q] = File(tmpl[q].data)
     /\ h.log[q].outcome = "skipped" /\ h.log[q].calls = 0

\* ---------------------------------------------------------------- C7
\* C7: in a non-dry-run apply, for a conflicting file: Overwrite leaves the
\* template bytes in the destination and counts updated; Skip leaves the
\* destination and counts skipped; Merge with merge bytes available leaves
\* exactly the merge bytes offered to the decider; Merge without merge
\* bytes leaves the destination, counts skipped and is not the entry an
\* error of the call arose at.
C7_Resolution ==
  \A h \in TemplateViews : \A p \in Decided(h) :
     LET e == h.log[p]
         old == h.before.tree[p]
         new == h.after.tree[p]
     IN  ~h.dry =>
           /\ e.merge = merge_file(p, old.data, tmpl[p].data)
           /\ e.action = "Overwrite" =>
                new = File(tmpl[p].data) /\ e.outcome = "updated" /\ e.written
           /\ e.action = "Skip" => new = old /\ e.outcome = "skipped" /\ ~e.written
           /\ (e.action = "Merge" /\ e.merge.some) =>
                /\ new = File(e.merge.val)
                /\ e.outcome = (IF e.merge.val = old.data THEN "skipped" ELSE "updated")
           /\ (e.action = "Merge" /\ ~e.merge.some) =>
                /\ new = old /\ e.outcome = "skipped" /\ ~e.written
                /\ h.at # p

\* a non-dry-run Ok call with a Merge that wrote new merge bytes, after a
\* call in which Merge was chosen for a file without merge bytes
C7_Witness ==
  /\ \E h \in OkTemplateRuns : \E p \in Decided(h) :
        /\ ~h.dry /\ h.log[p].action = "Merge" /\ h.log[p].merge.some
        /\ h.log[p].outcome = "updated"
        /\ h.after.tree[p] = File(h.log[p].merge.val)
        /\ h.after.tree[p] # h.before.tree[p]
  /\ \E h \in OkTemplateRuns : \E p \in Decided(h) :
        ~h.dry /\ h.log[p].action = "Merge" /\ ~h.log[p].merge.some

\* ---------------------------------------------------------------- C8
\* a template entry named .DS_Store or whose first component is .git
AlwaysIgnoreShape(p) ==
  /\ tmpl[p].kind # "absent"
  /\ (p[Len(p)] = ".DS_Store" \/ p[1] = ".git")

\* never copied, never given to the merge registry or to the decider
KeptOut(h, p) ==
  /\ ~h.log[p].written
  /\ h.log[p].calls = 0
  /\ h.log[p].action = "none"
  /\ h.log[p].merge = None
  /\ h.after.tree[p] = h.before.tree[p]
  /\ h.after.tree[p].kind = "absent"

Symlinks == {p \in U : tmpl[p].kind = "symlink"}

\* calls of apply_template_dir that passed the checks of the two paths
Traversals ==
  {h \in Finished : h.kind = "template" /\ tmplRoot = "dir" /\ h.before.root \in {"dir", "missing"}}

C10_AsStated ==
  \A h \in Traversals :
     h.result = "SymlinkNotSupported" =>
        \A p \in U : h.after.tree[p] = h.before.tree[p] /\ ~h.log[p].written

\* --------------------------------------------------------------- C11
\* the error the shape of the two paths asks for, "none" when they pass
PathShapeError(t, d) ==
  CASE t = "missing" -> "TemplateDirNotFound"
    [] t = "symlink" -> "SymlinkNotSupported"
    [] t = "file" -> "TemplateDirNotDir"
    [] d = "symlink" -> "SymlinkNotSupported"
    [] d = "file" -> "DestDirNotDir"
    [] OTHER -> "none"

TemplateCalls == {h \in Finished : h.kind = "template"}

\* C11: a template path that is missing, a symlink or no directory, or a
\* destination that exists as a symlink or as something that is no
\* directory, makes apply_template_dir return the matching error with
\* nothing traversed, nothing counted, the decider not asked and the
\* destination (a missing directory included) as it was; no traversal is
\* ever in progress over such paths.
C11_Preconditions ==
  /\ \A h \in TemplateCalls :
        LET err == PathShapeError(tmplRoot, h.before.root)
        IN  err # "none" =>
              /\ h.result = err
              /\ h.log = EmptyLog
              /\ h.report = ZeroReport
              /\ h.after = h.before
  /\ pc = "walk" => PathShapeError(tmplRoot, before.root) = "none"

\* a real run refused because the destination is a file, after a dry run
\* refused the same way
C11_Witness ==
  /\ tmplRoot = "dir" /\ destRoot = "file"
  /\ Len(hist) = 2
  /\ hist[1].kind = "template" /\ hist[1].dry /\ hist[1].result = "DestDirNotDir"
  /\ hist[2].kind = "template" /\ ~hist[2].dry /\ hist[2].result = "DestDirNotDir"

\* --------------------------------------------------------------- C12
\* C12: a step of apply_template_dir or apply_generated_file that changes
\* an existing destination file leaves it a file with the permission bits
\* it had before the step.
C12_PermsKept ==
  [][\A p \in U :
        (fs[p].kind = "file" /\ fs'[p] # fs[p]) =>
           (fs'[p].kind = "file" /\ perm'[p] = perm[p])]_vars

\* a set-user-ID file updated by apply_template_dir and then overwritten by
\* apply_generated_file, still set-user-ID
C12_Witness ==
  /\ Len(hist) = 2
  /\ hist[1].kind = "template" /\ hist[1].log[<<"a.txt">>].outcome = "updated"
  /\ hist[1].log[<<"a.txt">>].written
  /\ hist[2].kind = "generated" /\ hist[2].log[<<"a.txt">>].outcome = "updated"
  /\ hist[2].log[<<"a.txt">>].written
  /\ perm[<<"a.txt">>] = "4755"

\* --------------------------------------------------------------- C13
\* the values that hold keys
IsMap(v) == v.t \in {"table", "mapping"}

RECURSIVE KeyPaths(_)
\* the key paths of a map, nested ones included
KeyPaths(m) ==
  UNION {{<<k>>} \cup (IF IsMap(m[k]) THEN {<<k>> \o q : q \in KeyPaths(m[k].m)} ELSE {})
           : k \in DOMAIN m}

RECURSIVE At(_, _)
\* the value at a key path of a map
At(m, path) == IF Len(path) = 1 THEN m[path[1]] ELSE At(m[path[1]].m, Tail(path))

\* the keys of a document root: a TOML root is a table, a YAML root that is
\* no mapping holds no keys
RootMap(strategy, root) ==
  IF strategy = "toml" THEN root
  ELSE IF root.t = "mapping" THEN root.m
  ELSE <<>>

StructuredCalls == mrg.strategy \in {"toml", "yaml"} /\ mrg.done

\* C13: a TOML or YAML merge of two documents that parse keeps every key
\* path of the destination, with its kind and, where it holds no nested
\* keys, with its value, also when the template has another value or kind
\* there; a key path that is new in the result comes from the template,
\* with the template's value, and is absent from the destination.
C13_Additive ==
  (StructuredCalls /\ mrg.dest.parses /\ mrg.src.parses) =>
     /\ mrg.out.some /\ mrg.out.val.parses
     /\ LET d == RootMap(mrg.strategy, mrg.dest.root)
            t == RootMap(mrg.strategy, mrg.src.root)
            r == RootMap(mrg.strategy, mrg.out.val.root)
        IN  /\ (mrg.strategy = "yaml" /\ ~IsMap(mrg.dest.root)) => mrg.out.val.root = mrg.dest.root
            /\ (mrg.strategy = "yaml" /\ IsMap(mrg.dest.root)) => IsMap(mrg.out.val.root)
            /\ \A q \in KeyPaths(d) :
                  /\ q \in KeyPaths(r)
                  /\ At(r, q).t = At(d, q).t
                  /\ ~IsMap(At(d, q)) => At(r, q) = At(d, q)
            /\ \A q \in KeyPaths(r) \ KeyPaths(d) :
                  /\ q \in KeyPaths(t)
                  /\ At(r, q) = At(t, q)

\* a merge that kept a destination value where the template has a table or
\* mapping, and took a nested key from the template
C13_Witness ==
  /\ StructuredCalls /\ mrg.dest.parses /\ mrg.src.parses
  /\ LET d == RootMap(mrg.strategy, mrg.dest.root)
         t == RootMap(mrg.strategy, mrg.src.root)
         r == RootMap(mrg.strategy, mrg.out.val.root)
     IN  /\ \E q \in KeyPaths(d) \cap KeyPaths(t) :
               ~IsMap(At(d, q)) /\ IsMap(At(t, q)) /\ At(r, q) = At(d, q)
         /\ \E q \in KeyPaths(r) \ KeyPaths(d) : Len(q) = 2

\* --------------------------------------------------------------- C14
\* the template lines with a key the destination does not hold
MissingEnv(dest_bytes, src_bytes) ==
  SelectSeq(src_bytes.lines,
            LAMBDA l : /\ env_key(l).some
                       /\ \A i \in DOMAIN dest_bytes.lines :
                             ~env_key(dest_bytes.lines[i]).some
                               \/ env_key(dest_bytes.lines[i]).key # env_key(l).key)

\* C14 as stated: the result of a .env merge is the lines of the
\* destination followed by exactly the template lines whose key the
\* destination lacks, in template order, and nothing else: "A=d\n" merged
\* with "A=t\nB=t\n" is "A=d\nB=t\n".
C14_AsStated ==
  (mrg.strategy = "env" /\ mrg.done /\ mrg.out.some) =>
     mrg.out.val.lines = mrg.dest.lines \o MissingEnv(mrg.dest, mrg.src)

\* --------------------------------------------------------------- C15
TsCalls == mrg.strategy = "tree_sitter" /\ mrg.done /\ mrg.out.some

IsImport(n) == contains_any(n.kind, mrg.rules.import_like)

IsNamed(n) == ~IsImport(n) /\ contains_any(n.kind, mrg.rules.named_like) /\ n.name.some

IsNamespace(n) == contains_any(n.kind, {"namespace"}) /\ ~contains_any(n.kind, {"use"})

\* what identifies an import (its text with whitespace collapsed) or a named
\* declaration (its kind and name)
KeyOf(n) ==
  IF IsImport(n) THEN <<"import", normalize_ws(n.text)>> ELSE <<"named", n.kind, n.name.val>>

Keyed(n) == IsImport(n) \/ IsNamed(n)

\* how often the key of n occurs among the nodes q
Occurrences(q, n) == Cardinality({i \in DOMAIN q : Keyed(q[i]) /\ KeyOf(q[i]) = KeyOf(n)})

\* the length of the leading preamble: imports, namespaces, comments
PreambleLen(q) ==
  LET pre(n) == IsImport(n) \/ IsNamespace(n) \/ contains_any(n.kind, {"comment"})
      stops == {i \in DOMAIN q : ~pre(q[i])}
  IN  IF stops = {} THEN Len(q) ELSE (CHOOSE i \in stops : \A j \in stops : i <= j) - 1

RECURSIVE PickAt(_, _)
\* the elements of q at the indices I, in order
PickAt(q, I) ==
  IF I = {} THEN <<>>
  ELSE LET m == CHOOSE i \in I : \A j \in I : i <= j
       IN  <<q[m]>> \o PickAt(q, I \ {m})

\* the template nodes of one class whose key the destination lacks, each
\* key at its first occurrence
Absent1(d, t, class(_)) ==
  {i \in DOMAIN t :
      /\ class(t[i])
      /\ Occurrences(d, t[i]) = 0
      /\ \A j \in 1..(i - 1) : ~(Keyed(t[j]) /\ KeyOf(t[j]) = KeyOf(t[i]))}

\* the result the claim describes, the imports at the indices I
Expected(d, t, I) ==
  SubSeq(d, 1, PreambleLen(d)) \o PickAt(t, I) \o SubSeq(d, PreambleLen(d) + 1, Len(d))
    \o PickAt(t, Absent1(d, t, IsNamed))

\* C15 as stated: the result is the destination with the template imports
\* it lacks inserted after its leading preamble and the template's named
\* declarations it lacks appended, in template order, and every import and
\* named declaration occurs exactly once in the result.
C15_AsStated ==
  TsCalls =>
     LET d == mrg.dest.root
         t == mrg.src.root
         r == mrg.out.val.root
     IN  /\ r = Expected(d, t, Absent1(d, t, IsImport))
         /\ \A i \in DOMAIN r : Keyed(r[i]) => Occurrences(r, r[i]) = 1

\* the template namespace nodes that are not merged in: the rules say so
\* and the destination declares a namespace
Suppressed(d, n) ==
  /\ mrg.rules.skip_if_dest_has_namespace
  /\ IsNamespace(n)
  /\ \E i \in DOMAIN d : IsNamespace(d[i])

\* C15 amended: the result is the destination with the template imports
\* whose normalized text it lacks inserted after its leading preamble
\* (except namespace nodes when the rules suppress them and the destination
\* declares a namespace) and the template's named declarations whose
\* (kind, name) it lacks appended, in template order, each key once; every
\* destination item keeps its place, a key the destination holds occurs in
\* the result as often as in the destination, an added key exactly once.
C15_TopLevel ==
  TsCalls =>
     LET d == mrg.dest.root
         t == mrg.src.root
         r == mrg.out.val.root
         imports == {i \in Absent1(d, t, IsImport) : ~Suppressed(d, t[i])}
     IN  /\ r = Expected(d, t, imports)
         /\ \A i \in DOMAIN r :
               Keyed(r[i]) =>
                  Occurrences(r, r[i]) =
                     (IF Occurrences(d, r[i]) > 0 THEN Occurrences(d, r[i]) ELSE 1)

\* a Rust merge that put an import between the destination's import and its
\* function and appended a function, the template repeating a known import
C15_Witness ==
  /\ TsCalls /\ mrg.rules = RustRules
  /\ LET d == mrg.dest.root
         r == mrg.out.val.root
     IN  /\ Len(d) = 2 /\ PreambleLen(d) = 1 /\ Len(r) = 4
         /\ IsImport(r[2]) /\ r[3] = d[2] /\ IsNamed(r[4])

\* --------------------------------------------------------------- C16
\* the lines of t that are no line of d, each at its first occurrence
MissingLines(d, t) ==
  PickAt(t, {i \in DOMAIN t :
               /\ \A j \in DOMAIN d : d[j] # t[i]
               /\ \A j \in 1..(i - 1) : t[j] # t[i]})

\* C16 as stated: the result of the line merge is the lines of the
\* destination followed by the template lines that are no line of the
\* destination, in template order, each distinct line once however often
\* the template holds it, and newline-terminated when lines were added.
C16_AsStated ==
  (mrg.strategy = "lines" /\ mrg.done /\ mrg.out.some) =>
     LET missing == MissingLines(mrg.dest.lines, mrg.src.lines)
     IN  /\ mrg.out.val.lines = mrg.dest.lines \o missing
         /\ missing # <<>> => mrg.out.val.nl

\* --------------------------------------------------------------- C17
\* the call of apply_generated_file that this step is, if it is one
GeneratedCall(dry, rel, contents) ==
  /\ ApplyGeneratedFile(dry, rel, contents)
  /\ destRoot = "dir"
  /\ fs[rel].kind = "file"
  /\ fs[rel].data # contents

\* what the call just finished did with rel
Last(rel) == hist'[Len(hist')].log[rel]

\* the decider was asked once, about rel, without merge bytes
AskedWithoutMerge(rel, contents) ==
  /\ Last(rel).calls = 1
  /\ Last(rel).merge = None
  /\ \E m \in answers' :
        /\ m.ctx = [rel |-> rel, src |-> contents, dest |-> fs[rel].data, merge |-> None]
        /\ m.action = Last(rel).action

\* C17 as stated: apply_generated_file on an existing file with other
\* bytes asks the decider once, without merge bytes; Merge and Skip leave
\* the file and report skipped_files = 1; Overwrite leaves exactly the
\* supplied bytes and reports updated_files = 1.
C17_AsStated ==
  [][\A dry \in BOOLEAN, rel \in GeneratedRels, contents \in GeneratedContents :
        GeneratedCall(dry, rel, contents) =>
           /\ AskedWithoutMerge(rel, contents)
           /\ Last(rel).action \in {"Merge", "Skip"} =>
                 fs' = fs /\ hist'[Len(hist')].report = One("skipped_files")
           /\ Last(rel).action = "Overwrite" =>
                 fs'[rel] = File(contents) /\ hist'[Len(hist')].report = One("updated_files")]_vars

\* rel is always ignored or ignored by git in the destination
GeneratedIgnored(rel) ==
  \/ should_always_ignore(rel)
  \/ inWorkTree /\ GitMatches(GitRules(baseRules, fs), rel, FALSE)

\* C17 amended: apply_generated_file on an existing file with other bytes
\* at a path that is not ignored asks the decider once, without merge
\* bytes; Merge and Skip leave the destination and report skipped_files =
\* 1; Overwrite reports updated_files = 1 and, unless the run is dry,
\* leaves exactly the supplied bytes in a file the process may write, a dry
\* run leaving the destination; at an ignored path the decider is not
\* asked, nothing changes and ignored_paths = 1 is reported.
C17_NeverMerges ==
  [][\A dry \in BOOLEAN, rel \in GeneratedRels, contents \in GeneratedContents :
        GeneratedCall(dry, rel, contents) =>
           IF GeneratedIgnored(rel)
           THEN /\ Last(rel).calls = 0 /\ answers' = answers /\ fs' = fs
                /\ hist'[Len(hist')].report = One("ignored_paths")
           ELSE /\ AskedWithoutMerge(rel, contents)
                /\ Last(rel).action \in {"Merge", "Skip"} =>
                      /\ fs' = fs
                      /\ hist'[Len(hist')].result = "Ok"
                      /\ hist'[Len(hist')].report = One("skipped_files")
                /\ (Last(rel).action = "Overwrite" /\ (dry \/ Writable(perm[rel]))) =>
                      /\ hist'[Len(hist')].result = "Ok"
                      /\ hist'[Len(hist')].report = One("updated_files")
                      /\ fs' = IF dry THEN fs ELSE [fs EXCEPT ![rel] = File(contents)]]_vars

\* a real call in which the decider chose Merge for a text file that the
\* line merge could have merged, and the file was left alone
C17_Witness ==
  \E h \in Finished, rel \in GeneratedRels :
     /\ h.kind = "generated" /\ ~h.dry /\ h.result = "Ok"
     /\ h.log[rel].action = "Merge" /\ h.log[rel].outcome = "skipped"
     /\ h.before.tree[rel].data.utf8
     /\ h.after = h.before
     /\ h.report = One("skipped_files")

\* --------------------------------------------------------------- C18
\* the apply_template_dir calls that failed with Io at an entry
FailedCalls == {h \in TemplateCalls : h.result = "Io"}

\* the bytes the call h wrote at p
NewContent(h, p) ==
  IF h.log[p].outcome = "created" THEN tmpl[p].data
  ELSE output_bytes(h.log[p].action, tmpl[p].data, h.log[p].merge).val

\* a file that h processed and whose read, write or directory creation
\* cannot succeed
CannotSucceed(h, p) ==
  \/ h.before.tree[p].kind = "dir"
  \/ ~h.dry /\ h.before.tree[p].kind = "absent" /\ Len(p) > 1
        /\ h.before.tree[Parent(p)].kind = "file"

\* C18: a read, write or directory creation that fails at a file makes
\* apply_template_dir return Io; no file after it in traversal order is
\* written or decided, and every file written before it keeps its new bytes.
C18_IoStops ==
  /\ \A h \in TemplateCalls, p \in RegularFiles :
        (h.result = "Ok" /\ h.before.root = "dir" /\ h.log[p].outcome # "ignored"
           /\ ~Hidden(h, p)) => ~CannotSucceed(h, p)
  /\ \A h \in FailedCalls :
        /\ tmpl[h.at].kind = "file"
        /\ ~h.log[h.at].written
        /\ \A p \in U :
              /\ Before(h.at, p) =>
                    /\ h.log[p] = NoEntry
                    /\ h.after.tree[p] = h.before.tree[p]
              /\ h.log[p].written =>
                    /\ Before(p, h.at)
                    /\ h.after.tree[p] = File(NewContent(h, p))

\* a call that wrote one file and then failed at a second, with a third
\* file still to come
C18_Witness ==
  \E h \in FailedCalls, p \in RegularFiles, q \in RegularFiles :
     /\ h.log[p].written /\ h.after.tree[p] # h.before.tree[p]
     /\ Before(h.at, q)

\* --------------------------------------------------------------- C19
\* the stacks applied so far
Stacks == Range(cmd.runs)

\* the bytes a call on the template t left at a path it wrote
WrittenBytes(t, h, p) ==
  IF h.log[p].outcome = "created" THEN t[p].data
  ELSE output_bytes(h.log[p].action, t[p].data, h.log[p].merge).val

\* the last call of s before the i-th that wrote p, 0 if there is none
LastWriter(s, i, p) ==
  LET W == {j \in 1..(i - 1) : s.calls[j].log[p].written}
  IN  IF W = {} THEN 0 ELSE CHOOSE j \in W : \A k \in W : k <= j

C20_AsStated ==
  \A s \in Stacks, r \in Stacks :
     (s.dry /\ ~r.dry /\ s.from = r.from /\ s.template_dirs = r.template_dirs
        /\ s.result = "Ok" /\ r.result = "Ok") =>
        s.report = r.report

\* --------------------------------------------------------------- C21
\* the strategy of the call in mrg, on other bytes
Strategy(dest_bytes, src_bytes) ==
  CASE mrg.strategy = "lines" -> merge_lines(dest_bytes, src_bytes)
    [] mrg.strategy = "env" -> merge_env(dest_bytes, src_bytes)
    [] mrg.strategy = "envrc" -> merge_envrc(dest_bytes, src_bytes)
    [] mrg.strategy = "toml" -> merge_toml(dest_bytes, src_bytes)
    [] mrg.strategy = "yaml" -> merge_yaml(dest_bytes, src_bytes)
    [] mrg.strategy = "css" -> merge_tree_sitter_text_top_level(dest_bytes, src_bytes, CssKinds)
    [] mrg.strategy = "markdown" -> merge_markdown_sections(dest_bytes, src_bytes)
    [] mrg.strategy = "html" -> merge_html_assets(dest_bytes, src_bytes)
    [] mrg.strategy = "tree_sitter" ->
         merge_tree_sitter_named_top_level(dest_bytes, src_bytes, mrg.rules)

\* what a non-dry run does with an existing file when the decider answers
\* Merge and merge_file gives merge_bytes (lib.rs 461-521)
MergeRun(dest_bytes, src_bytes, merge_bytes) ==
  LET out == output_bytes("Merge", src_bytes, merge_bytes)
  IN  IF identical(src_bytes, dest_bytes) \/ ~out.some \/ no_changes(out.val, dest_bytes)
      THEN [outcome |-> "skipped", bytes |-> dest_bytes]
      ELSE [outcome |-> "updated", bytes |-> out.val]

DedupKeys(bytes) ==
  CASE mrg.strategy = "lines" -> Range(bytes.lines)
    [] mrg.strategy = "env" ->
         {env_key(l).key : l \in {x \in Range(bytes.lines) : env_key(x).some}}
    [] mrg.strategy = "envrc" ->
         {[line |-> l] : l \in {x \in Range(bytes.lines) : ~envrc_var(x).some}}
            \cup {[var |-> envrc_var(l).key] :
                    l \in {x \in Range(bytes.lines) : envrc_var(x).some}}
    [] mrg.strategy \in {"toml", "yaml"} -> KeyPaths(RootMap(mrg.strategy, bytes.root))
    [] mrg.strategy = "css" -> ts_text_keys(bytes.root, CssKinds)
    [] mrg.strategy = "markdown" -> markdown_heading_set(bytes.root)
    [] mrg.strategy = "html" -> html_asset_keys(bytes.root)
    [] mrg.strategy = "tree_sitter" ->
         UNION {TsKey(TsTopLevelItem(bytes.root[i], mrg.rules)) : i \in DOMAIN bytes.root}

\* destination and template are texts or parse
BothRead ==
  IF mrg.strategy \in {"lines", "env", "envrc"}
  THEN mrg.dest.utf8 /\ mrg.src.utf8
  ELSE mrg.dest.parses /\ mrg.src.parses

\* C22 as stated: when every dedup key of the template is a dedup key of
\* the destination, the strategy returns the destination bytes, and a run
\* whose decider answers Merge counts the file as skipped and leaves it.
C22_AsStated ==
  (mrg.strategy # "none" /\ mrg.done /\ BothRead
     /\ DedupKeys(mrg.src) \subseteq DedupKeys(mrg.dest)) =>
     /\ mrg.out.some => mrg.out.val = mrg.dest
     /\ MergeRun(mrg.dest, mrg.src, mrg.out) = [outcome |-> "skipped", bytes |-> mrg.dest]

\* --------------------------------------------------------------- C23
\* a comment line or a blank line of a .env file
Inert(line) == trim(line) = <<>> \/ Head(trim(line)) = "#"

\* C23 as stated: the .env merge is available for a destination text whose
\* every line is a comment, a blank line or a line with a valid key, and
\* unavailable only when some destination line is none of these.
C23_AsStated ==
  (mrg.strategy = "env" /\ mrg.done /\ mrg.dest.utf8 /\ mrg.src.utf8) =>
     (mrg.out.some <=>
        \A i \in DOMAIN mrg.dest.lines :
           Inert(mrg.dest.lines[i]) \/ env_key(mrg.dest.lines[i]).some)

\* --------------------------------------------------------------- C24
\* C24 as stated: when the .env merge is available for a destination and a
\* template, it is available again for its own output as destination,
\* against any template.
C24_AsStated ==
  (mrg.strategy = "env" /\ mrg.done /\ mrg.out.some) =>
     \A later \in TemplateTexts(EnvTemplateLines) : merge_env(mrg.out.val, later).some

\* --------------------------------------------------------------- C25
\* C25 as stated: a file that apply_template_dir has created where the
\* destination had none holds the template bytes and has the default mode
\* of a new file, whatever the mode of the template file.
C25_AsStated ==
  (pc = "idle" /\ hist # <<>> /\ hist[Len(hist)].kind = "template") =>
     \A p \in U :
        (hist[Len(hist)].log[p].outcome = "created" /\ hist[Len(hist)].log[p].written) =>
           /\ fs[p] = File(tmpl[p].data)
           /\ perm[p] = DefaultMode

\* --------------------------------------------------------------- C26
\* the end of the section of the idx-th heading: the last heading before
\* the next one of the same or a higher level
SectionEnd(headings, idx) ==
  LET closing == {j \in (idx + 1)..Len(headings) : headings[j].level <= headings[idx].level}
  IN  IF closing = {} THEN Len(headings)
      ELSE (CHOOSE j \in closing : \A k \in closing : j <= k) - 1

RECURSIVE WholeSections(_, _, _)
\* the whole sections of the headings from idx on whose key is not known,
\* a heading inside an appended section not being taken again
WholeSections(headings, idx, known) ==
  IF idx > Len(headings) THEN <<>>
  ELSE IF markdown_heading_key(headings[idx]) \in known
  THEN WholeSections(headings, idx + 1, known)
  ELSE LET last == SectionEnd(headings, idx)
       IN  SubSeq(headings, idx, last)
              \o WholeSections(headings, last + 1,
                               known \cup {markdown_heading_key(headings[j]) : j \in idx..last})

\* C26 as stated: the Markdown merge appends, for every template heading
\* that the destination lacks, the whole section of that heading with its
\* nested sub-headings and their text, and appends no nested heading again.
C26_AsStated ==
  (mrg.strategy = "markdown" /\ mrg.done /\ mrg.dest.parses /\ mrg.src.parses) =>
     /\ mrg.out.some
     /\ mrg.out.val.root =
           mrg.dest.root
              \o WholeSections(mrg.src.root, 1, markdown_heading_set(mrg.dest.root))

\* --------------------------------------------------------------- C27
\* what lies beneath the template directory d
Beneath(d) == {p \in U : IsUnder(d, p) /\ tmpl[p].kind # "absent"}

\* C27: a template directory that is ignored (always-ignored .git, or
\* reported ignored by the oracle) adds exactly 1 to ignored_paths however
\* many files it contains, and nothing beneath it is visited, copied,
\* merged or passed to the decider: every ignored entry of a call is
\* counted once, and what lies beneath an ignored directory has no entry
\* in the call, was not asked about and leaves the destination as it was.
C27_IgnoredDir ==
  \A h \in TemplateViews :
     /\ h.report.ignored_paths = Cardinality(With(h, "ignored"))
     /\ \A d \in IgnoredDirs(h) : \A p \in Beneath(d) :
           /\ h.log[p] = NoEntry
           /\ h.after.tree[p] = h.before.tree[p]

\* a call that returned Ok with one ignored path, a directory the oracle
\* reported ignored that holds a regular file
C27_Witness ==
  \E h \in OkTemplateRuns : \E d \in IgnoredDirs(h) :
     /\ ~should_always_ignore(d)
     /\ \E p \in Beneath(d) : tmpl[p].kind = "file"
     /\ h.report.ignored_paths = 1

\* --------------------------------------------------------------- C28
\* C28 as stated: the interactive prompt terminates: for every input
\* stream, one that ends before a valid choice was entered included, and
\* whether or not merge is available, the decider eventually returns one
\* of Overwrite / Merge / Skip.
C28_AsStated == <>(cli.pc = "returned" /\ cli.out \in Actions)

\* --------------------------------------------------------------- C29
\* C29: CliDecider never returns Merge for a context without merge bytes:
\* without a prompt it returns its default action, Skip in place of Merge
\* when merge is unavailable; with a prompt, an "m" or an empty answer when
\* merge is unavailable returns nothing and the prompt is shown again.
C29_NeverMerge ==
  [][ /\ (cli'.pc = "returned" /\ ~cli'.merge_available) => cli'.out # "Merge"
      /\ (CliDecide /\ cli.non_interactive) =>
            /\ cli'.pc = "returned"
            /\ cli'.out = (IF cli.default_action = "Merge" /\ ~cli.merge_available
                             THEN "Skip" ELSE cli.default_action)
      /\ (Prompt /\ ~cli.merge_available /\ cli'.choice \in {<<>>, <<"m">>}) =>
            /\ cli'.pc = "prompt"
            /\ cli'.out = "none"
            /\ cli'.prompts = cli.prompts + 1 ]_vars

\* the prompt to be shown a second time after "m" was entered for a
\* context without merge bytes
C29_Witness ==
  /\ cli.pc = "prompt"
  /\ ~cli.merge_available
  /\ cli.choice = <<"m">>
  /\ cli.prompts = 1

\* --------------------------------------------------------------- C30
\* the ref can be checked out in the clone, as given or as origin/<ref>
CanCheckOut(r) ==
  \/ Resolves(r.remote, r.cache.head, r.git_ref)
  \/ Resolves(r.remote, r.cache.head, origin(r.git_ref))

\* C30 as stated: for every configured ref that cannot be checked out in
\* the cached clone, neither as given nor as origin/<ref>,
\* resolve_template_dir returns GitCommandFailed, and never a directory
\* of a checkout of some other ref.
C30_AsStated ==
  (rsv.pc = "returned" /\ rsv.cache.exists /\ ~CanCheckOut(rsv)) =>
     rsv.result = "GitCommandFailed"

====
